---- MODULE Spec2Model ----
(***************************************************************************)
(* A model of snowchains' test-suite engine (src/src/testsuite.rs):        *)
(* case materialization, ZIP mining and the loader that merges the suite   *)
(* files of one problem; of the templates of src/src/config.rs and of the  *)
(* download runs of src/src/service.                                       *)
(*                                                                         *)
(* Strings are sequences of one-character strings, Option<T> is a sequence *)
(* of length at most one (<<>> is None, <<x>> is Some(x)).                 *)
(***************************************************************************)
EXTENDS Integers, Sequences, FiniteSets, TLC

VARIABLES
    suite,               \* SpecCases: the TestSuite being materialized
    tester_commands,     \* TestCaseLoader.tester_commands: language -> template
    tester_compilacions, \* TestCaseLoader.tester_compilacions: language -> template
    cases,               \* SpecCases: result of cases_named, or NotCalled
    archive,             \* SpecZip: the file at the path of the ZIP archive
    mined,               \* SpecZip: result of ZipConfig::load, or NotCalled
    extensions,          \* Spec: TestCaseLoader.extensions
    template,            \* Spec: TestCaseLoader.template
    zip_conf,            \* TestCaseLoader.zip_conf
    disk,                \* Spec: extension -> the file at the candidate path
    result,              \* Spec: result of load_merging, or NotCalled
    suite_path,          \* SpecFile: the SuiteFilePath of the suite file
    suite_file,          \* SpecFile: the file at the path
    stdout,              \* SpecFile: whether the output stream takes writes
    returned,            \* SpecFile: the last save or modify_* call and its result
    reloaded,            \* SpecFile: result of TestSuite::load, or NotCalled
    given_paths,         \* SpecPaths: the paths handed to format_paths
    compressed,          \* SpecPaths: result of format_paths, or NotCalled
    tmpl_string,         \* SpecTemplate: the text of a TemplateString
    tmpl_vars,           \* SpecTemplate: the variables handed to format
    tmpl_target,         \* SpecTemplate: the target handed to format
    formatted,           \* SpecTemplate: result of TemplateString::format, or NotCalled
    service,             \* SpecDownload: the service whose download runs
    pages,               \* SpecDownload: what fetching each targeted problem gives
    pc,                  \* SpecDownload: the position of the download run
    outputs,             \* SpecDownload: the scraped suites, in scraping order
    written,             \* SpecDownload: the suite files saved, in saving order
    finished             \* SpecDownload: result of the download, or NotCalled

file_vars == <<suite_path, suite_file, stdout, returned, reloaded>>

text_vars == <<given_paths, compressed, tmpl_string, tmpl_vars, tmpl_target, formatted>>

download_vars == <<service, pages, pc, outputs, written, finished>>

vars == <<suite, tester_commands, tester_compilacions, cases, archive,
          mined, extensions, template, zip_conf, disk, result,
          suite_path, suite_file, stdout, returned, reloaded,
          given_paths, compressed, tmpl_string, tmpl_vars, tmpl_target, formatted,
          service, pages, pc, outputs, written, finished>>

----------------------------------------------------------------------------
(* Bounds of the model *)

MaxCases == 2
MaxEachArgs == 2
MaxArgs == 10
NumMembers == 8
MaxExisting == 3
MaxStored == 2
MaxPaths == 3
MaxPathLen == 2
MaxTemplateLen == 4
MaxProblems == 3

----------------------------------------------------------------------------
(* Values *)

None == <<>>
Some(x) == <<x>>

NotCalled == [ok |-> FALSE, err |-> [kind |-> "NotCalled", detail |-> <<>>]]
Ok(v) == [ok |-> TRUE, val |-> v]
Err(kind, detail) == [ok |-> FALSE, err |-> [kind |-> kind, detail |-> detail]]

Max(a, b) == IF a >= b THEN a ELSE b

Reverse(xs) == [k \in 1..Len(xs) |-> xs[Len(xs) + 1 - k]]

Digit(d) == <<"0", "1", "2", "3", "4", "5", "6", "7", "8", "9">>[d + 1]

RECURSIVE UsizeToString(_)
UsizeToString(n) ==
    IF n < 10 THEN <<Digit(n)>> ELSE UsizeToString(n \div 10) \o <<Digit(n % 10)>>

RECURSIVE Join(_, _)
Join(strs, sep) ==
    IF strs = <<>> THEN <<>>
    ELSE IF Len(strs) = 1 THEN strs[1]
    ELSE strs[1] \o sep \o Join(Tail(strs), sep)

\* HashMap::insert: a later value for a key replaces the earlier one.
Insert(m, k, v) == [x \in DOMAIN m \cup {k} |-> IF x = k THEN v ELSE m[x]]

RECURSIVE Extend(_, _)
Extend(m, pairs) ==
    IF pairs = <<>> THEN m
    ELSE Extend(Insert(m, pairs[1][1], pairs[1][2]), Tail(pairs))

----------------------------------------------------------------------------
(* Match and SimpleCase *)

F64 == {"NaN", "1e-9"}

Match ==
    {[kind |-> "Any"], [kind |-> "Exact"]}
    \cup {[kind |-> "Float", relative_error |-> r, absolute_error |-> a] :
            r \in F64, a \in F64}

MatchDefault == [kind |-> "Exact"]

\* SimpleCase::new with the two thresholds of Float exchanged.
SimpleCaseNewSwapped(name, timelimit, input, output, output_match) ==
    LET expected ==
            IF output_match.kind = "Any" THEN [kind |-> "Any", example |-> output]
            ELSE IF output = None THEN [kind |-> "Any", example |-> None]
            ELSE IF output_match.kind = "Exact"
                 THEN [kind |-> "Exact", string |-> output[1]]
            ELSE [kind |-> "Float",
                  string |-> output[1],
                  absolute_error |-> output_match.relative_error,
                  relative_error |-> output_match.absolute_error]
    IN [name |-> name, input |-> input, expected |-> expected, timelimit |-> timelimit]

SimpleCaseNew(name, timelimit, input, output, output_match) ==
    LET expected ==
            IF output_match.kind = "Any" THEN [kind |-> "Any", example |-> output]
            ELSE IF output = None THEN [kind |-> "Any", example |-> None]
            ELSE IF output_match.kind = "Exact"
                 THEN [kind |-> "Exact", string |-> output[1]]
            ELSE [kind |-> "Float",
                  string |-> output[1],
                  absolute_error |-> output_match.absolute_error,
                  relative_error |-> output_match.relative_error]
    IN [name |-> name, input |-> input, expected |-> expected, timelimit |-> timelimit]

\* Case names counted from one instead of zero.
CaseNameFromOne(filename, i) ==
    filename \o <<"[">> \o UsizeToString(i + 1) \o <<"]">>

\* format!("{}[{}]", filename, i)
CaseName(filename, i) == filename \o <<"[">> \o UsizeToString(i) \o <<"]">>

SimpleCasesNamed(s, filename) ==
    [k \in 1..Len(s.cases) |->
        SimpleCaseNew(CaseName(filename, k - 1), s.timelimit,
                      s.cases[k].input, s.cases[k].output, s.output_match)]

----------------------------------------------------------------------------
(* InteractiveSuite::cases_named *)

\* Template::expand of crate::template: the frozen command, or an error.
Expand(t, strings, problem) ==
    IF t.expandable
    THEN Ok([template |-> t.name, strings |-> strings, problem |-> problem])
    ELSE Err("ExpandTemplate", t.name)

\* args.iter().enumerate().zip_longest(1..=9), mapped to (key, value) pairs;
\* i is the index of the case in each_args.
EnvPairs(args, i) ==
    [k \in 1..Max(Len(args), 9) |->
        IF k <= Len(args) /\ k <= 9 THEN <<UsizeToString(k), args[k]>>
        ELSE IF k <= Len(args) THEN <<UsizeToString((k - 1) + i), args[k]>>
        ELSE <<UsizeToString(k), <<>>>>]

Env(args, i) ==
    Extend([key \in {<<"*">>} |-> Join(args, <<" ">>)], EnvPairs(args, i))

\* cases_named looking the tester command up before it asks for the language.
InteractiveCaseLookupFirst(s, compilations, commands, filename, problem, k) ==
    LET lang == IF s.tester = None THEN <<>> ELSE s.tester[1]
    IN IF lang \notin DOMAIN commands THEN Err("NoSuchLanguage", lang)
       ELSE LET tester == Expand(commands[lang], Env(s.each_args[k], k - 1), problem)
            IN IF ~tester.ok THEN tester
               ELSE Ok([name |-> CaseName(filename, k - 1),
                        tester |-> tester.val,
                        tester_compilation |-> None,
                        timelimit |-> s.timelimit])

\* One turn of the loop of cases_named: the case for each_args[k], or the
\* error that ends the loop.
InteractiveCase(s, compilations, commands, filename, problem, k) ==
    LET i == k - 1
        args == s.each_args[k]
    IN IF s.tester = None THEN Err("LanguageNotSpecified", <<>>)
       ELSE LET lang == s.tester[1]
                m == Env(args, i)
                comp == IF lang \in DOMAIN compilations
                        THEN Expand(compilations[lang], <<>>, problem)
                        ELSE Ok(None)
            IN IF ~comp.ok THEN comp
               ELSE IF lang \notin DOMAIN commands THEN Err("NoSuchLanguage", lang)
               ELSE LET tester == Expand(commands[lang], m, problem)
                    IN IF ~tester.ok THEN tester
                       ELSE Ok([name |-> CaseName(filename, i),
                                tester |-> tester.val,
                                tester_compilation |->
                                    IF lang \in DOMAIN compilations
                                    THEN Some(comp.val) ELSE None,
                                timelimit |-> s.timelimit])

RECURSIVE InteractiveLoop(_, _, _, _, _, _, _)
InteractiveLoop(s, compilations, commands, filename, problem, k, acc) ==
    IF k > Len(s.each_args) THEN Ok(acc)
    ELSE LET c == InteractiveCase(s, compilations, commands, filename, problem, k)
         IN IF ~c.ok THEN c
            ELSE InteractiveLoop(s, compilations, commands, filename, problem,
                                 k + 1, Append(acc, c.val))

InteractiveCasesNamed(s, compilations, commands, filename, problem) ==
    InteractiveLoop(s, compilations, commands, filename, problem, 1, <<>>)

----------------------------------------------------------------------------
(* ZIP mining: ZipEntries::load and ZipConfig::load *)

\* A file at a path: absent, unreadable as what it should be, or its content.
Absent == [kind |-> "absent"]
Corrupt == [kind |-> "corrupt"]
ZipFile(members) == [kind |-> "zip", members |-> members]

EndsWith(s, suffix) ==
    /\ Len(s) >= Len(suffix)
    /\ SubSeq(s, Len(s) - Len(suffix) + 1, Len(s)) = suffix

IsDigit(c) == c \in {"0", "1", "2", "3", "4", "5", "6", "7", "8", "9"}

AllDigits(s) == s # <<>> /\ \A k \in 1..Len(s) : IsDigit(s[k])

\* Regex::captures for the regexes "^(.+)<suffix>$" (groups = 1),
\* "^.+<suffix>$" (groups = 0) and "^(?:([0-9]+)|.+)<suffix>$" (groups = 1,
\* digits): None, or the groups of the match from group 0, a group that took
\* no part in the match being None.
Captures(entry, filename) ==
    IF Len(filename) > Len(entry.suffix) /\ EndsWith(filename, entry.suffix)
    THEN LET stem == SubSeq(filename, 1, Len(filename) - Len(entry.suffix))
         IN Some(<<Some(filename)>> \o
                 (IF entry.groups = 1
                  THEN <<IF entry.digits /\ ~AllDigits(stem) THEN None ELSE Some(stem)>>
                  ELSE <<>>))
    ELSE None

\* Captures::get(i)
CapsGet(caps, i) == IF i + 1 <= Len(caps) THEN caps[i + 1] ELSE None

RECURSIVE ReplaceCrlf(_)
ReplaceCrlf(s) ==
    IF s = <<>> THEN <<>>
    ELSE IF Len(s) >= 2 /\ s[1] = "\r" /\ s[2] = "\n"
         THEN <<"\n">> \o ReplaceCrlf(SubSeq(s, 3, Len(s)))
    ELSE <<s[1]>> \o ReplaceCrlf(Tail(s))

\* The content normalized whatever the flag of the rule is.
NormalizedAlways(rule, content) == ReplaceCrlf(content)

Normalized(rule, content) == IF rule.crlf_to_lf THEN ReplaceCrlf(content) ELSE content

\* The input-side half of one turn of the scan: the pairs after it, or the error.
ScanInput(e, member, pairs) ==
    LET caps == Captures(e.input.entry, member.name)
    IN IF caps = None THEN Ok(pairs)
       ELSE LET got == CapsGet(caps[1], e.input.match_group)
            IN IF got = None
               THEN Err("RegexGroupOutOfBounds", UsizeToString(e.input.match_group))
               ELSE LET name == got[1]
                        content == Normalized(e.input, member.content)
                    IN Ok(Insert(pairs, name,
                                 IF name \in DOMAIN pairs
                                 THEN <<Some(content), pairs[name][2]>>
                                 ELSE <<Some(content), None>>))

\* The output side dropping what the input side recorded for the identifier.
ScanOutputForgetful(e, member, pairs) ==
    LET caps == Captures(e.output.entry, member.name)
    IN IF caps = None THEN Ok(pairs)
       ELSE LET got == CapsGet(caps[1], e.output.match_group)
            IN IF got = None
               THEN Err("RegexGroupOutOfBounds", UsizeToString(e.output.match_group))
               ELSE Ok(Insert(pairs, got[1],
                              <<None, Some(Normalized(e.output, member.content))>>))

\* The output-side half.
ScanOutput(e, member, pairs) ==
    LET caps == Captures(e.output.entry, member.name)
    IN IF caps = None THEN Ok(pairs)
       ELSE LET got == CapsGet(caps[1], e.output.match_group)
            IN IF got = None
               THEN Err("RegexGroupOutOfBounds", UsizeToString(e.output.match_group))
               ELSE LET name == got[1]
                        content == Normalized(e.output, member.content)
                    IN Ok(Insert(pairs, name,
                                 IF name \in DOMAIN pairs
                                 THEN <<pairs[name][1], Some(content)>>
                                 ELSE <<None, Some(content)>>))

RECURSIVE Scan(_, _, _, _)
Scan(e, members, i, pairs) ==
    IF i > Len(members) THEN Ok(pairs)
    ELSE LET a == ScanInput(e, members[i], pairs)
         IN IF ~a.ok THEN a
            ELSE LET b == ScanOutput(e, members[i], a.val)
                 IN IF ~b.ok THEN b ELSE Scan(e, members, i + 1, b.val)

\* The byte order of the characters that identifiers are made of.
Ascii ==
    <<".", "0", "1", "2", "3", "4", "5", "6", "7", "8", "9",
      "i", "o", "r", "t", "x", "y">>
Code(c) == CHOOSE n \in 1..Len(Ascii) : Ascii[n] = c

\* str::cmp
RECURSIVE StrCmp(_, _)
StrCmp(a, b) ==
    IF a = <<>> /\ b = <<>> THEN "Equal"
    ELSE IF a = <<>> THEN "Less"
    ELSE IF b = <<>> THEN "Greater"
    ELSE IF Code(a[1]) < Code(b[1]) THEN "Less"
    ELSE IF Code(a[1]) > Code(b[1]) THEN "Greater"
    ELSE StrCmp(Tail(a), Tail(b))

DigitValue(c) == Code(c) - Code("0")

RECURSIVE DigitsValue(_)
DigitsValue(s) ==
    IF s = <<>> THEN 0 ELSE 10 * DigitsValue(SubSeq(s, 1, Len(s) - 1)) + DigitValue(s[Len(s)])

\* str::parse::<usize>
ParseUsize(s) == IF AllDigits(s) THEN Some(DigitsValue(s)) ELSE None

\* The Number key comparing the identifiers as text.
NumberCmpText(a, b) == StrCmp(a, b)

NumberCmp(a, b) ==
    LET n1 == ParseUsize(a)
        n2 == ParseUsize(b)
    IN IF n1 # None /\ n2 # None
       THEN (IF n1[1] < n2[1] THEN "Less" ELSE IF n1[1] > n2[1] THEN "Greater" ELSE "Equal")
       ELSE IF n1 # None THEN "Less"
       ELSE IF n2 # None THEN "Greater"
       ELSE "Equal"

SortingCmp(sorting, a, b) ==
    IF sorting = "Dictionary" THEN StrCmp(a, b) ELSE NumberCmp(a, b)

\* A stable insertion of x into the sorted xs: after every element not greater.
RECURSIVE InsertStable(_, _, _)
InsertStable(sorting, xs, x) ==
    IF xs = <<>> THEN <<x>>
    ELSE IF SortingCmp(sorting, x[1], xs[Len(xs)][1]) = "Less"
         THEN Append(InsertStable(sorting, SubSeq(xs, 1, Len(xs) - 1), x), xs[Len(xs)])
    ELSE Append(xs, x)

\* slice::sort_by (stable)
RECURSIVE SortBy(_, _)
SortBy(sorting, xs) ==
    IF xs = <<>> THEN <<>>
    ELSE InsertStable(sorting, SortBy(sorting, SubSeq(xs, 1, Len(xs) - 1)), xs[Len(xs)])

\* The listed keys applied from the last to the first.
RECURSIVE ApplySortsLastFirst(_, _)
ApplySortsLastFirst(sorts, xs) ==
    IF sorts = <<>> THEN xs ELSE SortBy(sorts[1], ApplySortsLastFirst(Tail(sorts), xs))

RECURSIVE ApplySorts(_, _)
ApplySorts(sorts, xs) ==
    IF sorts = <<>> THEN xs ELSE ApplySorts(Tail(sorts), SortBy(sorts[1], xs))

\* The orders in which HashMap::into_iter may yield the keys.
Orders(S) == {p \in [1..Cardinality(S) -> S] : \A a, b \in DOMAIN p : p[a] = p[b] => a = b}

\* format!("{}:{}", filename, name)
ZipCaseName(filename, name) == filename \o <<":">> \o name

\* The identifiers that reach the case list: captured on both sides.
Paired(pairs) == {n \in DOMAIN pairs : pairs[n][1] # None /\ pairs[n][2] # None}

\* ZipEntries::load: the set of results it may return (one per iteration order
\* of the map of pairs).
ZipEntriesLoad(e, file, filename, timelimit, output_match) ==
    IF file = Absent THEN {Ok(<<>>)}
    ELSE IF file = Corrupt THEN {Err("ReadZip", filename)}
    ELSE LET scanned == Scan(e, file.members, 1, <<>>)
         IN IF ~scanned.ok THEN {scanned}
            ELSE LET pairs == scanned.val
                 IN {Ok([k \in 1..Len(sorted) |->
                            SimpleCaseNew(ZipCaseName(filename, sorted[k][1]), timelimit,
                                          sorted[k][2], Some(sorted[k][3]), output_match)]) :
                        sorted \in {ApplySorts(e.sort,
                                        [k \in 1..Len(order) |->
                                            <<order[k], pairs[order[k]][1][1],
                                              pairs[order[k]][2][1]>>]) :
                                    order \in Orders(Paired(pairs))}}

\* ZipConfig::load: the results of the groups concatenated, or the first error.
RECURSIVE ZipConfigLoadFrom(_, _, _, _, _)
ZipConfigLoadFrom(conf, file, filename, g, acc) ==
    IF g > Len(conf.entries) THEN {Ok(acc)}
    ELSE UNION {IF r.ok THEN ZipConfigLoadFrom(conf, file, filename, g + 1, acc \o r.val)
                ELSE {r} :
                r \in ZipEntriesLoad(conf.entries[g], file, filename,
                                     conf.timelimit, conf.output_match)}

ZipConfigLoad(conf, file, filename) == ZipConfigLoadFrom(conf, file, filename, 1, <<>>)

----------------------------------------------------------------------------
(* Suite files as text: to_string_pretty and TestSuite::load *)

\* The text of a suite file is the document the serializer wrote: a list of
\* <<key, value>> pairs in the order of writing.  A value is a "str", "tag",
\* "int", "float", "null", "seq" or "map" in the encoding's own form, which its
\* parser undoes, or a "literal": the lines of a YAML literal block that
\* testsuite.rs writes itself.
Val(kind, v) == [kind |-> kind, v |-> v]

HasKey(pairs, key) == \E k \in DOMAIN pairs : pairs[k][1] = key

\* The value of the first pair with the key.
Get(pairs, key) ==
    pairs[CHOOSE k \in DOMAIN pairs :
            pairs[k][1] = key /\ \A j \in 1..(k - 1) : pairs[j][1] # key][2]

\* The one element of a singleton.
The(S) == CHOOSE x \in S : TRUE

\* The text cut at every "\n"; the part after the last "\n" is the last element.
RECURSIVE Split(_)
Split(s) ==
    IF \A k \in DOMAIN s : s[k] # "\n" THEN <<s>>
    ELSE LET nl == CHOOSE k \in DOMAIN s : s[k] = "\n" /\ \A j \in 1..(k - 1) : s[j] # "\n"
         IN <<SubSeq(s, 1, nl - 1)>> \o Split(SubSeq(s, nl + 1, Len(s)))

\* str::lines: no line for the text after a final "\n", a final "\r" of a line
\* dropped.
StrLines(s) ==
    LET parts == Split(s)
        kept == IF parts[Len(parts)] = <<>> THEN SubSeq(parts, 1, Len(parts) - 1) ELSE parts
    IN [k \in DOMAIN kept |->
          IF kept[k] # <<>> /\ kept[k][Len(kept[k])] = "\r"
          THEN SubSeq(kept[k], 1, Len(kept[k]) - 1)
          ELSE kept[k]]

\* fn is_valid: ends with "\n", and every character is a space, a "\n", or
\* neither whitespace nor a control character.
is_valid(s) ==
    /\ s # <<>> /\ s[Len(s)] = "\n"
    /\ \A k \in DOMAIN s : s[k] \in {" ", "\n"} \/ s[k] \notin {"\t", "\r"}

\* for l in s.lines() { writeln!(r, "      {}", l) }
IndentedLines(s) ==
    LET ls == StrLines(s)
    IN Join([k \in DOMAIN ls |-> <<" ", " ", " ", " ", " ", " ">> \o ls[k] \o <<"\n">>],
            <<>>)

\* The number of spaces a line starts with.
LeadingSpaces(l) ==
    IF \A k \in DOMAIN l : l[k] = " " THEN Len(l)
    ELSE (CHOOSE k \in DOMAIN l : l[k] # " " /\ \A j \in 1..(k - 1) : l[j] = " ") - 1

\* The content of the lines of a literal block whose indentation is known:
\* each line without its indentation, up to the last line that is not empty.
\* A line that is not blank and narrower than the indentation ends the block
\* where no mapping key can follow.
BlockContent(ls, indent, path) ==
    LET content == [k \in DOMAIN ls |->
                      IF Len(ls[k]) <= indent THEN <<>>
                      ELSE SubSeq(ls[k], indent + 1, Len(ls[k]))]
        full == {k \in DOMAIN ls : Len(ls[k]) > indent}
    IN IF \E k \in DOMAIN ls : LeadingSpaces(ls[k]) < Len(ls[k]) /\ LeadingSpaces(ls[k]) < indent
       THEN Err("Deserialize", path)
       ELSE Ok(Join([k \in 1..(CHOOSE k \in full : \A j \in full : j <= k) |->
                        content[k] \o <<"\n">>], <<>>))

\* The scalar a YAML parser reads from a literal block ("|": indentation
\* detected from the lines, clip chomping), or the error.  The indentation is
\* the widest of the leading blank lines and the first line that is not
\* blank; a blank line no wider than the indentation is an empty line.
ScanBlockScalar(block, path) ==
    The({IF \A k \in DOMAIN ls : LeadingSpaces(ls[k]) = Len(ls[k]) THEN Ok(<<>>)
         ELSE The({BlockContent(ls,
                                CHOOSE n \in {LeadingSpaces(ls[k]) : k \in 1..first} :
                                    \A k \in 1..first : LeadingSpaces(ls[k]) <= n,
                                path) :
                     first \in {CHOOSE k \in DOMAIN ls :
                                  /\ LeadingSpaces(ls[k]) < Len(ls[k])
                                  /\ \A j \in 1..(k - 1) : LeadingSpaces(ls[j]) = Len(ls[j])}}) :
           ls \in {StrLines(block)}})

\* time::ser_millis: the time limit in milliseconds.
ser_millis(t) == Val("int", t)

\* time::de_secs: the time limit read back, null being None.
de_secs(v, path) ==
    IF v.kind = "null" THEN Ok(None)
    ELSE IF v.kind = "int" THEN Ok(Some(v.v))
    ELSE Err("Deserialize", path)

\* A threshold of Float: JSON has no NaN, serde_json writes null for it.
F64Val(f, ext) == IF ext = "json" /\ f = "NaN" THEN Val("null", <<>>) ELSE Val("float", f)

\* enum Match, rename_all = "snake_case"
MatchVal(m, ext) ==
    IF m.kind = "Any" THEN Val("tag", "any")
    ELSE IF m.kind = "Exact" THEN Val("tag", "exact")
    ELSE Val("map", <<<<"float",
                        Val("map", <<<<"relative_error", F64Val(m.relative_error, ext)>>,
                                     <<"absolute_error", F64Val(m.absolute_error, ext)>>>>)>>>>)

\* skip_serializing_if = "Option::is_none"
TimelimitPair(timelimit) ==
    IF timelimit = None THEN <<>> ELSE <<<<"timelimit", ser_millis(timelimit[1])>>>>

\* struct SimpleSuiteSchemaCase, its strings in the encoding's own form
\* ("str") or as "  - in: |\n" and "    out: |\n", each followed by the
\* indented lines ("literal").
CaseVal(c, style) ==
    Val("map", <<<<"in", Val(style, IF style = "literal" THEN IndentedLines(c.input)
                                    ELSE c.input)>>>>
               \o (IF c.output = None THEN <<>>
                   ELSE <<<<"out", Val(style, IF style = "literal"
                                              THEN IndentedLines(c.output[1])
                                              ELSE c.output[1])>>>>))

\* SimpleSuite::to_string_pretty.  The TOML serializer has no form for a
\* struct variant (Match::Float).  In YAML, when every case is valid, the text
\* is the head followed by "\ncases:\n" and one literal block per string: with
\* no case at all nothing follows "cases:", which reads as null.
SimpleToStringPretty(this, ext) ==
    IF ext = "toml" /\ this.output_match.kind = "Float" THEN Err("Serialize", <<>>)
    ELSE Ok(<<<<"type", Val("tag", "simple")>>>> \o TimelimitPair(this.timelimit)
            \o <<<<"match", MatchVal(this.output_match, ext)>>,
                 <<"cases",
                   IF /\ ext \in {"yaml", "yml"}
                      /\ \A k \in DOMAIN this.cases :
                            /\ is_valid(this.cases[k].input)
                            /\ this.cases[k].output # None => is_valid(this.cases[k].output[1])
                   THEN IF this.cases = <<>> THEN Val("null", <<>>)
                        ELSE Val("seq", [k \in DOMAIN this.cases |->
                                           CaseVal(this.cases[k], "literal")])
                   ELSE Val("seq", [k \in DOMAIN this.cases |->
                                      CaseVal(this.cases[k], "str")])>>>>)

\* TestSuite::to_string_pretty.  For struct InteractiveSuite the TOML
\* serializer leaves out a None.
to_string_pretty(this, ext) ==
    IF this.type = "simple" THEN SimpleToStringPretty(this, ext)
    ELSE IF this.type = "interactive"
    THEN Ok(<<<<"type", Val("tag", "interactive")>>>> \o TimelimitPair(this.timelimit)
            \o (IF this.tester # None THEN <<<<"tester", Val("str", this.tester[1])>>>>
                ELSE IF ext = "toml" THEN <<>>
                ELSE <<<<"tester", Val("null", <<>>)>>>>)
            \o <<<<"each_args",
                   Val("seq", [k \in DOMAIN this.each_args |->
                                 Val("seq", [j \in DOMAIN this.each_args[k] |->
                                               Val("str", this.each_args[k][j])])])>>>>)
    ELSE Ok(<<<<"type", Val("tag", "unsubmittable")>>>>)

\* The first error of a sequence of results, or the values of all of them.
Collect(rs) ==
    The({IF \E k \in DOMAIN r : ~r[k].ok
         THEN r[CHOOSE k \in DOMAIN r : ~r[k].ok /\ \A j \in 1..(k - 1) : r[j].ok]
         ELSE Ok([k \in DOMAIN r |-> r[k].val]) : r \in {rs}})

\* A String read from a scalar.
DeString(v, path) ==
    IF v.kind = "str" THEN Ok(v.v)
    ELSE IF v.kind = "literal" THEN ScanBlockScalar(v.v, path)
    ELSE Err("Deserialize", path)

\* f64 with #[serde(default = "nan")]: NaN when the key is missing; null is
\* not a number.
DeF64(pairs, key, path) ==
    IF ~HasKey(pairs, key) THEN Ok("NaN")
    ELSE IF Get(pairs, key).kind = "float" THEN Ok(Get(pairs, key).v)
    ELSE Err("Deserialize", path)

\* enum Match
DeMatch(v, path) ==
    IF v = Val("tag", "any") THEN Ok([kind |-> "Any"])
    ELSE IF v = Val("tag", "exact") THEN Ok([kind |-> "Exact"])
    ELSE IF v.kind = "map" /\ HasKey(v.v, "float") /\ Get(v.v, "float").kind = "map"
    THEN The({IF ~r.ok THEN r
              ELSE IF ~a.ok THEN a
              ELSE Ok([kind |-> "Float", relative_error |-> r.val,
                       absolute_error |-> a.val]) :
                r \in {DeF64(Get(v.v, "float").v, "relative_error", path)},
                a \in {DeF64(Get(v.v, "float").v, "absolute_error", path)}})
    ELSE Err("Deserialize", path)

\* A field with deserialize_with = "time::de_secs" and no default: a missing
\* key is an error (missing field `timelimit`).
DeTimelimit(pairs, path) ==
    IF ~HasKey(pairs, "timelimit") THEN Err("Deserialize", path)
    ELSE de_secs(Get(pairs, "timelimit"), path)

\* Option<String>: None when the key is missing or null.
DeOptionString(pairs, key, path) ==
    IF ~HasKey(pairs, key) \/ Get(pairs, key).kind = "null" THEN Ok(None)
    ELSE The({IF r.ok THEN Ok(Some(r.val)) ELSE r : r \in {DeString(Get(pairs, key), path)}})

\* struct SimpleSuiteSchemaCase
DeCase(v, path) ==
    IF v.kind # "map" \/ ~HasKey(v.v, "in") THEN Err("Deserialize", path)
    ELSE The({IF ~i.ok THEN i
              ELSE IF ~o.ok THEN o
              ELSE Ok([input |-> i.val, output |-> o.val]) :
                i \in {DeString(Get(v.v, "in"), path)},
                o \in {DeOptionString(v.v, "out", path)}})

\* struct SimpleSuite: the head flattened, match defaulting to Exact, cases a
\* sequence.
DeSimple(pairs, path) ==
    The({IF ~timelimit.ok THEN timelimit
         ELSE IF ~output_match.ok THEN output_match
         ELSE IF ~cs.ok THEN cs
         ELSE Ok([type |-> "simple", timelimit |-> timelimit.val,
                  output_match |-> output_match.val, cases |-> cs.val]) :
            timelimit \in {DeTimelimit(pairs, path)},
            output_match \in {IF HasKey(pairs, "match")
                              THEN DeMatch(Get(pairs, "match"), path)
                              ELSE Ok(MatchDefault)},
            cs \in {IF HasKey(pairs, "cases") /\ Get(pairs, "cases").kind = "seq"
                    THEN The({Collect([k \in DOMAIN v.v |-> DeCase(v.v[k], path)]) :
                                v \in {Get(pairs, "cases")}})
                    ELSE Err("Deserialize", path)}})

\* Vec<String>
DeArgs(v, path) ==
    IF v.kind = "seq" THEN Collect([j \in DOMAIN v.v |-> DeString(v.v[j], path)])
    ELSE Err("Deserialize", path)

\* struct InteractiveSuite
DeInteractive(pairs, path) ==
    The({IF ~timelimit.ok THEN timelimit
         ELSE IF ~tester.ok THEN tester
         ELSE IF ~each_args.ok THEN each_args
         ELSE Ok([type |-> "interactive", timelimit |-> timelimit.val,
                  tester |-> tester.val, each_args |-> each_args.val]) :
            timelimit \in {DeTimelimit(pairs, path)},
            tester \in {DeOptionString(pairs, "tester", path)},
            each_args \in {IF /\ HasKey(pairs, "each_args")
                              /\ Get(pairs, "each_args").kind = "seq"
                           THEN The({Collect([k \in DOMAIN v.v |-> DeArgs(v.v[k], path)]) :
                                       v \in {Get(pairs, "each_args")}})
                           ELSE Err("Deserialize", path)}})

\* serde_json::from_str, toml::from_str, serde_yaml::from_str for TestSuite
\* (tag = "type")
from_str(pairs, path) ==
    IF ~HasKey(pairs, "type") THEN Err("Deserialize", path)
    ELSE IF Get(pairs, "type") = Val("tag", "simple") THEN DeSimple(pairs, path)
    ELSE IF Get(pairs, "type") = Val("tag", "interactive") THEN DeInteractive(pairs, path)
    ELSE IF Get(pairs, "type") = Val("tag", "unsubmittable")
    THEN Ok([type |-> "unsubmittable"])
    ELSE Err("Deserialize", path)

\* A suite file holding the text.
TextFile(content) == [kind |-> "text", content |-> content]

----------------------------------------------------------------------------
(* TestCaseLoader::load_merging *)

\* SuiteFileExtension, in the order of its derived Ord (the order in which a
\* BTreeSet<SuiteFileExtension> is iterated).
ExtOrder == <<"json", "toml", "yaml", "yml", "zip">>
AllExtensions == {ExtOrder[k] : k \in 1..Len(ExtOrder)}

\* impl Display for SuiteFileExtension
ExtToString(ext) ==
    CASE ext = "json" -> <<"j", "s", "o", "n">>
      [] ext = "toml" -> <<"t", "o", "m", "l">>
      [] ext = "yaml" -> <<"y", "a", "m", "l">>
      [] ext = "yml" -> <<"y", "m", "l">>
      [] ext = "zip" -> <<"z", "i", "p">>

\* SuiteFileExtension::serializable(..).is_some()
Serializable(ext) == ext # "zip"

SuiteFile(s) == [kind |-> "suite", suite |-> s]

\* template.insert_string("extension", ext).expand(problem) of crate::template,
\* for the template "<dir>/$problem.$extension".
ExpandPath(t, ext, problem) ==
    IF t.expandable THEN Ok(t.name \o problem \o <<".">> \o ExtToString(ext))
    ELSE Err("ExpandTemplate", t.name)

\* Path::file_name
RECURSIVE FileNameOf(_)
FileNameOf(path) ==
    IF path = <<>> \/ path[Len(path)] = "/" THEN <<>>
    ELSE Append(FileNameOf(SubSeq(path, 1, Len(path) - 1)), path[Len(path)])

\* same_nexts with f = VecDeque::front
SameFronts(css) ==
    /\ css # <<>>
    /\ \A k \in 1..Len(css) : css[k] # <<>>
    /\ \A k \in 1..Len(css) : css[k][1] = css[1][1]

\* same_nexts with f = VecDeque::back
SameBacks(css) ==
    /\ css # <<>>
    /\ \A k \in 1..Len(css) : css[k] # <<>>
    /\ \A k \in 1..Len(css) : css[k][Len(css[k])] = css[1][Len(css[1])]

\* The first loop of format_paths: <<pref_common, css>> after it.
RECURSIVE PopFronts(_, _)
PopFronts(pref, css) ==
    IF SameFronts(css)
    THEN PopFronts(Append(pref, css[1][1]), [k \in 1..Len(css) |-> Tail(css[k])])
    ELSE <<pref, css>>

\* The second loop: <<suf_common_rev, css>> after it.  The popped character is
\* taken from the last deque (css.iter_mut().rev()).
RECURSIVE PopBacks(_, _)
PopBacks(suf_rev, css) ==
    IF SameBacks(css)
    THEN PopBacks(Append(suf_rev, css[Len(css)][Len(css[Len(css)])]),
                  [k \in 1..Len(css) |-> SubSeq(css[k], 1, Len(css[k]) - 1)])
    ELSE <<suf_rev, css>>

RECURSIVE NonEmpty(_)
NonEmpty(css) ==
    IF css = <<>> THEN <<>>
    ELSE IF css[1] = <<>> THEN NonEmpty(Tail(css))
    ELSE <<css[1]>> \o NonEmpty(Tail(css))

\* A comma alone between the alternatives.
SeparatorComma == <<",">>

\* The separator written before every alternative but the first.
Separator == <<",", " ">>

RECURSIVE Braced(_, _)
Braced(css, i) ==
    IF i > Len(css) THEN <<>>
    ELSE (IF i = 1 THEN <<"{">> ELSE Separator) \o css[i]
         \o (IF i = Len(css) THEN <<"}">> ELSE <<>>)
         \o Braced(css, i + 1)

format_paths(paths) ==
    LET front == PopFronts(<<>>, paths)
        back == PopBacks(<<>>, front[2])
    IN front[1] \o Braced(NonEmpty(back[2]), 1) \o Reverse(back[1])

\* A load that reads the Unsubmittable sentinel as a Batch suite without cases.
TestSuiteLoadLenient(file, path) ==
    IF file.kind = "suite"
    THEN (IF file.suite.type = "unsubmittable"
          THEN Ok([type |-> "simple", timelimit |-> None, output_match |-> MatchDefault,
                   cases |-> <<>>])
          ELSE Ok(file.suite))
    ELSE IF file = Absent THEN Err("Io", path)
    ELSE Err("Deserialize", path)

\* TestSuite::load: the suite parsed from the file, or the error.
TestSuiteLoad(file, path) ==
    IF file.kind = "suite" THEN Ok(file.suite)
    ELSE IF file.kind = "text" THEN from_str(file.content, path)
    ELSE IF file = Absent THEN Err("Io", path)
    ELSE Err("Deserialize", path)

\* let all_paths: <<path, ext>> per configured extension in BTreeSet order, or
\* the first expansion error.
RECURSIVE AllPathsFrom(_, _)
AllPathsFrom(problem, k) ==
    IF k > Len(ExtOrder) THEN Ok(<<>>)
    ELSE IF ExtOrder[k] \notin extensions THEN AllPathsFrom(problem, k + 1)
    ELSE LET path == ExpandPath(template, ExtOrder[k], problem)
             rest == AllPathsFrom(problem, k + 1)
         IN IF ~path.ok THEN path
            ELSE IF ~rest.ok THEN rest
            ELSE Ok(<<<<path.val, ExtOrder[k]>>>> \o rest.val)

\* existing_paths keeping only the first existing file ("first wins").
ExistingFirstOnly(all_paths) ==
    LET at == {k \in 1..Len(all_paths) : disk[all_paths[k][2]] # Absent}
    IN IF at = {} THEN <<>> ELSE <<all_paths[CHOOSE k \in at : \A j \in at : k <= j]>>

\* existing_paths with the ZIP archive probed whatever the extensions are.
ExistingWithZip(all_paths) ==
    SelectSeq(all_paths, LAMBDA p : disk[p[2]] # Absent)
    \o (IF "zip" \notin extensions /\ disk["zip"] # Absent /\ template.expandable
        THEN <<<<ExpandPath(template, "zip", <<"a">>).val, "zip">>>>
        ELSE <<>>)

\* let existing_paths
RECURSIVE Existing(_)
Existing(all_paths) ==
    IF all_paths = <<>> THEN <<>>
    ELSE IF disk[all_paths[1][2]] # Absent
         THEN <<all_paths[1]>> \o Existing(Tail(all_paths))
    ELSE Existing(Tail(all_paths))

NoCases == [simple_cases |-> <<>>, interactive_cases |-> <<>>, filepaths |-> <<>>]

\* A schema file pushed only when it contributed a case, as a ZIP archive is.
PushSchemaPathIfUsed(filepaths, path, contributed) ==
    IF contributed THEN Append(filepaths, path) ELSE filepaths

\* filepaths.push for a schema file: it is pushed whenever the file was loaded.
PushSchemaPath(filepaths, path, contributed) == Append(filepaths, path)

\* The loop over existing_paths: the set of outcomes it may have, each the
\* three vectors after the loop or the error that ended it.
RECURSIVE LoadFiles(_, _, _, _)
LoadFiles(problem, existing, i, acc) ==
    IF i > Len(existing) THEN {Ok(acc)}
    ELSE
      LET path == existing[i][1]
          ext == existing[i][2]
          filename == FileNameOf(path)
      IN IF Serializable(ext)
         THEN LET loaded == TestSuiteLoad(disk[ext], path)
              IN IF ~loaded.ok THEN {loaded}
                 ELSE IF loaded.val.type = "simple"
                 THEN LET cs == SimpleCasesNamed(loaded.val, filename)
                      IN LoadFiles(problem, existing, i + 1,
                            [acc EXCEPT !.simple_cases = @ \o cs,
                                        !.filepaths = PushSchemaPath(@, path, cs # <<>>)])
                 ELSE IF loaded.val.type = "interactive"
                 THEN LET cs == InteractiveCasesNamed(loaded.val, tester_compilacions,
                                                      tester_commands, filename, problem)
                      IN IF ~cs.ok THEN {cs}
                         ELSE LoadFiles(problem, existing, i + 1,
                                [acc EXCEPT !.interactive_cases = @ \o cs.val,
                                            !.filepaths =
                                                PushSchemaPath(@, path, cs.val # <<>>)])
                 ELSE {Err("Unsubmittable", problem)}
         ELSE UNION {IF ~r.ok THEN {r}
                     ELSE IF r.val # <<>>
                     THEN LoadFiles(problem, existing, i + 1,
                            [acc EXCEPT !.simple_cases = @ \o r.val,
                                        !.filepaths = Append(@, path)])
                     ELSE LoadFiles(problem, existing, i + 1, acc) :
                     r \in ZipConfigLoad(zip_conf, disk[ext], filename)}

Paths(all_paths) == [k \in 1..Len(all_paths) |-> all_paths[k][1]]

\* NoFile naming only the paths that exist.
NoFileDetailExisting(all_paths, existing) == format_paths(Paths(existing))

\* The detail of NoFile.
NoFileDetail(all_paths, existing) == format_paths(Paths(all_paths))

\* The decision merging the two kinds instead of refusing them.
DecideMerging(all_paths, existing, got) ==
    IF got.simple_cases = <<>> /\ got.interactive_cases = <<>>
    THEN Err("NoFile", NoFileDetail(all_paths, existing))
    ELSE IF got.interactive_cases = <<>>
    THEN Ok([kind |-> "Simple", cases |-> got.simple_cases,
             paths |-> format_paths(got.filepaths)])
    ELSE Ok([kind |-> "Interactive", cases |-> got.interactive_cases \o got.simple_cases,
             paths |-> format_paths(got.filepaths)])

\* The decision refusing two kinds of suite files even when one holds no case.
DecideByFiles(all_paths, existing, got) ==
    LET types == {disk[existing[k][2]].suite.type :
                    k \in {j \in 1..Len(existing) : disk[existing[j][2]].kind = "suite"}}
    IN IF {"simple", "interactive"} \subseteq types
       THEN Err("DifferentTypesOfSuites", <<>>)
       ELSE IF got.simple_cases = <<>> /\ got.interactive_cases = <<>>
       THEN Err("NoFile", NoFileDetail(all_paths, existing))
       ELSE IF got.interactive_cases = <<>>
       THEN Ok([kind |-> "Simple", cases |-> got.simple_cases,
                paths |-> format_paths(got.filepaths)])
       ELSE IF got.simple_cases = <<>>
       THEN Ok([kind |-> "Interactive", cases |-> got.interactive_cases,
                paths |-> format_paths(got.filepaths)])
       ELSE Err("DifferentTypesOfSuites", <<>>)

\* The decision returning no case, instead of NoFile, when files exist.
DecideEmptyOk(all_paths, existing, got) ==
    IF got.simple_cases = <<>> /\ got.interactive_cases = <<>>
    THEN IF existing = <<>> THEN Err("NoFile", NoFileDetail(all_paths, existing))
         ELSE Ok([kind |-> "Simple", cases |-> <<>>, paths |-> format_paths(got.filepaths)])
    ELSE IF got.interactive_cases = <<>>
    THEN Ok([kind |-> "Simple", cases |-> got.simple_cases,
             paths |-> format_paths(got.filepaths)])
    ELSE IF got.simple_cases = <<>>
    THEN Ok([kind |-> "Interactive", cases |-> got.interactive_cases,
             paths |-> format_paths(got.filepaths)])
    ELSE Err("DifferentTypesOfSuites", <<>>)

\* The decision that ends load_merging.
Decide(all_paths, existing, got) ==
    LET paths_as_text == format_paths(got.filepaths)
    IN IF got.simple_cases = <<>> /\ got.interactive_cases = <<>>
       THEN Err("NoFile", NoFileDetail(all_paths, existing))
       ELSE IF got.interactive_cases = <<>>
       THEN Ok([kind |-> "Simple", cases |-> got.simple_cases, paths |-> paths_as_text])
       ELSE IF got.simple_cases = <<>>
       THEN Ok([kind |-> "Interactive", cases |-> got.interactive_cases,
                paths |-> paths_as_text])
       ELSE Err("DifferentTypesOfSuites", <<>>)

\* load_merging: the set of results it may return.
LoadMerging(problem) ==
    LET all_paths == AllPathsFrom(problem, 1)
    IN IF ~all_paths.ok THEN {all_paths}
       ELSE LET existing == Existing(all_paths.val)
            IN {IF ~got.ok THEN got ELSE Decide(all_paths.val, existing, got.val) :
                    got \in LoadFiles(problem, existing, 1, NoCases)}

----------------------------------------------------------------------------
(* Saving and modifying a suite file *)

\* modify_timelimit setting the time limit of a Batch suite only.
TestSuiteModifyTimelimitBatch(this, p, timelimit) ==
    IF this.type = "simple"
    THEN [res |-> Ok(<<>>), suite |-> [this EXCEPT !.timelimit = timelimit]]
    ELSE IF this.type = "interactive" THEN [res |-> Ok(<<>>), suite |-> this]
    ELSE [res |-> Err("Unsubmittable", p), suite |-> this]

\* TestSuite::modify_timelimit: the result and the suite after the call.
TestSuiteModifyTimelimit(this, p, timelimit) ==
    IF this.type \in {"simple", "interactive"}
    THEN [res |-> Ok(<<>>), suite |-> [this EXCEPT !.timelimit = timelimit]]
    ELSE [res |-> Err("Unsubmittable", p), suite |-> this]

\* append leaving out a case the suite already holds.
SimpleSuiteAppendNew(this, input, output) ==
    IF \E k \in DOMAIN this.cases : this.cases[k] = [input |-> input, output |-> output]
    THEN this
    ELSE [this EXCEPT !.cases = Append(@, [input |-> input, output |-> output])]

\* SimpleSuite::append
SimpleSuiteAppend(this, input, output) ==
    [this EXCEPT !.cases = Append(@, [input |-> input, output |-> output])]

\* TestSuite::append
TestSuiteAppend(this, input, output) ==
    IF this.type = "simple"
    THEN [res |-> Ok(<<>>), suite |-> SimpleSuiteAppend(this, input, output)]
    ELSE [res |-> Err("SuiteIsNotSimple", <<>>), suite |-> this]

\* modify_match resetting the time limit with the policy.
TestSuiteModifyMatchReset(this, output_match) ==
    IF this.type = "simple"
    THEN [res |-> Ok(<<>>),
          suite |-> [this EXCEPT !.output_match = output_match, !.timelimit = None]]
    ELSE [res |-> Err("SuiteIsNotSimple", <<>>), suite |-> this]

\* TestSuite::modify_match
TestSuiteModifyMatch(this, output_match) ==
    IF this.type = "simple"
    THEN [res |-> Ok(<<>>), suite |-> [this EXCEPT !.output_match = output_match]]
    ELSE [res |-> Err("SuiteIsNotSimple", <<>>), suite |-> this]

\* TestSuite::save: the text is written to the file before the report goes to
\* the output stream.
TestSuiteSave(this, p, f, out) ==
    LET serialized == to_string_pretty(this, p.extension)
    IN IF ~serialized.ok THEN [res |-> serialized, file |-> f]
       ELSE IF out = "closed" THEN [res |-> Err("Io", <<>>), file |-> TextFile(serialized.val)]
       ELSE [res |-> Ok(<<>>), file |-> TextFile(serialized.val)]

----------------------------------------------------------------------------
(* Inputs of the materialization specification *)

BoundedSeq(S, n) == UNION {[1..k -> S] : k \in 0..n}

Timelimits == {None, Some(2000)}

Problem == <<"a">>
SuiteFileName == <<"a", ".", "y", "m", "l">>

Py == <<"p", "y">>
Cc == <<"c", "c">>
Rb == <<"r", "b">>

SchemaCases ==
    [input : {<<"1">>, <<"2">>}, output : {None, Some(<<"3">>)}]

SimpleSuites ==
    [type : {"simple"}, timelimit : Timelimits, output_match : Match,
     cases : BoundedSeq(SchemaCases, MaxCases)]

ArgChars == <<"a", "b", "c", "d", "e", "f", "g", "h", "i", "j", "k", "l">>
ArgList(n) == [k \in 1..n |-> <<ArgChars[k]>>]

InteractiveSuites ==
    [type : {"interactive"}, timelimit : Timelimits,
     tester : {None, Some(Py), Some(Cc), Some(Rb)},
     each_args : BoundedSeq({ArgList(n) : n \in 0..MaxArgs}, MaxEachArgs)]

Tmpl(name, expandable) == [name |-> name, expandable |-> expandable]

TesterCommandMaps ==
    {(Py :> Tmpl(<<"r">>, TRUE)) @@ (Cc :> Tmpl(<<"x">>, TRUE)),
     (Py :> Tmpl(<<"r">>, FALSE)) @@ (Cc :> Tmpl(<<"x">>, TRUE))}

TesterCompilationMaps ==
    {(Cc :> Tmpl(<<"g">>, TRUE)),
     (Cc :> Tmpl(<<"g">>, FALSE)) @@ (Rb :> Tmpl(<<"q">>, FALSE)),
     (Rb :> Tmpl(<<"q">>, TRUE))}

DefaultCommands == (Py :> Tmpl(<<"r">>, TRUE)) @@ (Cc :> Tmpl(<<"x">>, TRUE))
DefaultCompilations == (Cc :> Tmpl(<<"g">>, TRUE))

ZipIdle == archive = Absent /\ mined = NotCalled

NoZipConf == [timelimit |-> None, output_match |-> MatchDefault, entries |-> <<>>]

LoaderIdle ==
    /\ extensions = {}
    /\ template = Tmpl(<<>>, FALSE)
    /\ disk = <<>>
    /\ result = NotCalled

CasesIdle == suite = [type |-> "unsubmittable"] /\ cases = NotCalled

\* A call of save or of a modify_* function with its arguments and its result.
Call(op, timelimit, input, output, output_match, res) ==
    [op |-> op, timelimit |-> timelimit, input |-> input, output |-> output,
     output_match |-> output_match, res |-> res]

\* SuiteFilePath::new
SuiteFilePath(ext) ==
    [path |-> <<"d", "/", "a", ".">> \o ExtToString(ext), extension |-> ext]

FileIdle ==
    /\ suite_path = SuiteFilePath("yaml")
    /\ suite_file = Absent
    /\ stdout = "open"
    /\ returned = Call("none", None, <<>>, None, MatchDefault, NotCalled)
    /\ reloaded = NotCalled

PathsIdle ==
    /\ given_paths = <<>>
    /\ compressed = NotCalled

TemplateIdle ==
    /\ tmpl_string = <<>>
    /\ tmpl_vars = <<>>
    /\ tmpl_target = <<>>
    /\ formatted = NotCalled

DownloadIdle ==
    /\ service = "yukicoder"
    /\ pages = <<>>
    /\ pc = [at |-> "done", i |-> 0]
    /\ outputs = <<>>
    /\ written = <<>>
    /\ finished = NotCalled

----------------------------------------------------------------------------
(* SpecCases: a suite read from a suite file is materialized once *)

InitCases ==
    /\ suite \in SimpleSuites \cup InteractiveSuites
    /\ tester_commands \in TesterCommandMaps
    /\ tester_compilacions \in TesterCompilationMaps
    /\ cases = NotCalled
    /\ zip_conf = NoZipConf
    /\ ZipIdle
    /\ LoaderIdle
    /\ FileIdle
    /\ PathsIdle
    /\ TemplateIdle
    /\ DownloadIdle

CasesNamedSimple ==
    /\ suite.type = "simple"
    /\ cases = NotCalled
    /\ cases' = Ok(SimpleCasesNamed(suite, SuiteFileName))
    /\ UNCHANGED <<suite, tester_commands, tester_compilacions, archive,
                   mined, extensions, template, zip_conf, disk, result, file_vars, text_vars,
                   download_vars>>

CasesNamedInteractive ==
    /\ suite.type = "interactive"
    /\ cases = NotCalled
    /\ cases' = InteractiveCasesNamed(suite, tester_compilacions, tester_commands,
                                      SuiteFileName, Problem)
    /\ UNCHANGED <<suite, tester_commands, tester_compilacions, archive,
                   mined, extensions, template, zip_conf, disk, result, file_vars, text_vars,
                   download_vars>>

NextCases == CasesNamedSimple \/ CasesNamedInteractive

SpecCases == InitCases /\ [][NextCases]_vars

----------------------------------------------------------------------------
(* Inputs of the mining specification *)

Member(name, content) == [name |-> name, content |-> content]

\* The members an archive is drawn from, in archive order.
MasterMembers ==
    <<Member(<<"1", "0", ".", "i">>, <<"A", "\r", "\n">>),
      Member(<<"1", "0", ".", "o">>, <<"B", "\r", "\n">>),
      Member(<<"9", ".", "i">>, <<"C", "\n">>),
      Member(<<"9", ".", "o">>, <<"D", "\n">>),
      Member(<<"x", ".", "i">>, <<"E", "\n">>),
      Member(<<"9", ".", "i">>, <<"F", "\n">>),
      Member(<<"r", ".", "t">>, <<"G", "\n">>),
      Member(<<"x", ".", "o">>, <<"H", "\r", "\n">>),
      Member(<<"y", ".", "i">>, <<"I", "\n">>),
      Member(<<"y", ".", "o">>, <<"J", "\n">>),
      Member(<<"1", ".", "i">>, <<"K", "\n">>),
      Member(<<"1", ".", "o">>, <<"L", "\n">>)>>

RECURSIVE Select(_, _)
Select(S, n) ==
    IF n = 0 THEN <<>>
    ELSE IF n \in S THEN Append(Select(S, n - 1), MasterMembers[n])
    ELSE Select(S, n - 1)

Archives ==
    {Absent, Corrupt}
    \cup {ZipFile(Select(S, NumMembers)) : S \in SUBSET (1..NumMembers)}
    \cup {ZipFile(Reverse(Select(S, NumMembers))) : S \in SUBSET (1..NumMembers)}

Rule(suffix, groups, match_group, crlf_to_lf) ==
    [entry |-> [suffix |-> suffix, groups |-> groups, digits |-> FALSE],
     match_group |-> match_group, crlf_to_lf |-> crlf_to_lf]

\* A rule whose regex is "^(?:([0-9]+)|.+)<suffix>$".
RuleDigits(suffix, match_group, crlf_to_lf) ==
    [entry |-> [suffix |-> suffix, groups |-> 1, digits |-> TRUE],
     match_group |-> match_group, crlf_to_lf |-> crlf_to_lf]

RulePairs ==
    {<<Rule(<<".", "i">>, 1, 1, TRUE), Rule(<<".", "o">>, 1, 1, FALSE)>>,
     <<Rule(<<".", "i">>, 1, 1, FALSE), Rule(<<".", "o">>, 1, 2, TRUE)>>,
     <<Rule(<<".", "i">>, 1, 0, FALSE), Rule(<<".", "o">>, 0, 0, FALSE)>>,
     <<Rule(<<".", "i">>, 1, 1, TRUE), Rule(<<".", "i">>, 1, 1, FALSE)>>,
     <<Rule(<<".", "i">>, 1, 0, TRUE), Rule(<<".", "i">>, 1, 0, FALSE)>>,
     <<RuleDigits(<<".", "i">>, 1, FALSE), Rule(<<".", "o">>, 1, 1, FALSE)>>}

Sortings == {<<>>, <<"Dictionary">>, <<"Number">>,
             <<"Dictionary", "Number">>, <<"Number", "Dictionary">>}

ZipEntriesSet ==
    {[sort |-> so, input |-> rp[1], output |-> rp[2]] : so \in Sortings, rp \in RulePairs}

ZipFileName == <<"a", ".", "z", "i", "p">>

ZipConfigs ==
    {[timelimit |-> Some(2000), output_match |-> MatchDefault, entries |-> <<e>>] :
        e \in ZipEntriesSet}
    \cup {[timelimit |-> None, output_match |-> [kind |-> "Any"],
           entries |-> <<[sort |-> <<"Number">>,
                          input |-> Rule(<<".", "i">>, 1, 1, TRUE),
                          output |-> Rule(<<".", "o">>, 1, 1, TRUE)],
                         [sort |-> <<"Dictionary">>,
                          input |-> Rule(<<".", "i">>, 1, 1, FALSE),
                          output |-> Rule(<<".", "i">>, 1, 1, FALSE)]>>],
          NoZipConf}

----------------------------------------------------------------------------
(* SpecZip: one archive is mined once under one mining configuration *)

InitZip ==
    /\ archive \in Archives
    /\ zip_conf \in ZipConfigs
    /\ mined = NotCalled
    /\ tester_commands = DefaultCommands
    /\ tester_compilacions = DefaultCompilations
    /\ CasesIdle
    /\ LoaderIdle
    /\ FileIdle
    /\ PathsIdle
    /\ TemplateIdle
    /\ DownloadIdle

ZipLoad ==
    /\ mined = NotCalled
    /\ mined' \in ZipConfigLoad(zip_conf, archive, ZipFileName)
    /\ UNCHANGED <<suite, tester_commands, tester_compilacions, cases, archive,
                   extensions, template, zip_conf, disk, result, file_vars, text_vars,
                   download_vars>>

NextZip == ZipLoad

SpecZip == InitZip /\ [][NextZip]_vars

----------------------------------------------------------------------------
(* Inputs of the loader specification *)

LoaderCase(k) ==
    [input |-> <<Digit(k)>>, output |-> IF k % 2 = 1 THEN Some(<<"3">>) ELSE None]

LoaderSimple(n) ==
    [type |-> "simple", timelimit |-> Some(2000), output_match |-> MatchDefault,
     cases |-> [k \in 1..n |-> LoaderCase(k)]]

LoaderInteractive(tester, n) ==
    [type |-> "interactive", timelimit |-> None, tester |-> tester,
     each_args |-> [k \in 1..n |-> ArgList(k)]]

Unsubmittable == [type |-> "unsubmittable"]

SchemaFiles ==
    {Absent, Corrupt, SuiteFile(Unsubmittable)}
    \cup {SuiteFile(LoaderSimple(n)) : n \in 0..MaxCases}
    \cup {SuiteFile(LoaderInteractive(Some(Py), n)) : n \in 0..MaxEachArgs}
    \cup {SuiteFile(LoaderInteractive(None, n)) : n \in 0..1}
    \cup {SuiteFile(LoaderInteractive(Some(Rb), 1))}

ZipFiles ==
    {Absent, Corrupt, ZipFile(<<>>), ZipFile(Select({5}, 5)),
     ZipFile(Select({3, 4}, 5)), ZipFile(Select({1, 2, 3, 4, 5}, 5))}

LoaderZipConf ==
    [timelimit |-> None, output_match |-> MatchDefault,
     entries |-> <<[sort |-> <<"Number">>,
                    input |-> Rule(<<".", "i">>, 1, 1, TRUE),
                    output |-> Rule(<<".", "o">>, 1, 1, TRUE)]>>]

ExtensionSets ==
    {AllExtensions, AllExtensions \ {"zip"}, {"yaml", "yml", "zip"}, {"json", "zip"},
     {"yaml"}, {}}

PathTemplates == {Tmpl(<<"d", "/">>, TRUE), Tmpl(<<"d", "/">>, FALSE)}

ExistingFiles(d) == {e \in AllExtensions : d[e] # Absent}

\* The files at the candidate paths: a schema file can exist only where its
\* extension is configured (the others are never probed); at most MaxExisting
\* files exist.
Disks(exts) ==
    {d \in {("json" :> j) @@ ("toml" :> t) @@ ("yaml" :> y) @@ ("yml" :> m) @@ ("zip" :> z) :
                j \in IF "json" \in exts THEN SchemaFiles ELSE {Absent},
                t \in IF "toml" \in exts THEN SchemaFiles ELSE {Absent},
                y \in IF "yaml" \in exts THEN SchemaFiles ELSE {Absent},
                m \in IF "yml" \in exts THEN SchemaFiles ELSE {Absent},
                z \in ZipFiles} :
        Cardinality(ExistingFiles(d)) <= MaxExisting}

----------------------------------------------------------------------------
(* Spec: the loader is configured, the suite files of one problem are on     *)
(* disk, and load_merging is called once                                     *)

Init ==
    /\ extensions \in ExtensionSets
    /\ template \in PathTemplates
    /\ zip_conf = LoaderZipConf
    /\ disk \in Disks(extensions)
    /\ result = NotCalled
    /\ tester_commands = DefaultCommands
    /\ tester_compilacions = DefaultCompilations
    /\ CasesIdle
    /\ ZipIdle
    /\ FileIdle
    /\ PathsIdle
    /\ TemplateIdle
    /\ DownloadIdle

LoadMergingCall ==
    /\ result = NotCalled
    /\ result' \in LoadMerging(Problem)
    /\ UNCHANGED <<suite, tester_commands, tester_compilacions, cases, archive, mined,
                   extensions, template, zip_conf, disk, file_vars, text_vars,
                   download_vars>>

Next == LoadMergingCall

Spec == Init /\ [][Next]_vars

----------------------------------------------------------------------------
(* Inputs of the suite file specification *)

\* The cases a stored suite is made of: a valid input without output, an
\* input that starts with a space, an output that ends with an empty line, an
\* input without a final newline.
FileCases ==
    {[input |-> <<"a", "\n">>, output |-> None],
     [input |-> <<" ", "a", "\n">>, output |-> Some(<<"a", "\n">>)],
     [input |-> <<"a", "\n">>, output |-> Some(<<"a", "\n", "\n">>)],
     [input |-> <<"a">>, output |-> Some(<<"a", "\n">>)]}

FileMatches ==
    {[kind |-> "Exact"], [kind |-> "Any"],
     [kind |-> "Float", relative_error |-> "NaN", absolute_error |-> "1e-9"]}

FileSuites ==
    {[type |-> "simple", timelimit |-> t, output_match |-> m, cases |-> cs] :
        t \in Timelimits, m \in FileMatches, cs \in BoundedSeq(FileCases, MaxStored)}
    \cup {[type |-> "interactive", timelimit |-> t, tester |-> te, each_args |-> ea] :
            t \in Timelimits, te \in {None, Some(Py)},
            ea \in {<<>>, <<<<<<"a">>>>>>, <<<<<<"a">>, <<"b">>>>, <<>>>>}}
    \cup {Unsubmittable}

----------------------------------------------------------------------------
(* SpecFile: a suite is saved to a suite file, the file is modified by one   *)
(* modify_* call, and the file is loaded                                     *)

InitFile ==
    /\ suite \in FileSuites
    /\ suite_path \in {SuiteFilePath(ext) : ext \in {"json", "toml", "yaml", "yml"}}
    /\ suite_file \in {Absent, Corrupt}
    /\ stdout \in {"open", "closed"}
    /\ returned = Call("none", None, <<>>, None, MatchDefault, NotCalled)
    /\ reloaded = NotCalled
    /\ cases = NotCalled
    /\ tester_commands = DefaultCommands
    /\ tester_compilacions = DefaultCompilations
    /\ zip_conf = NoZipConf
    /\ ZipIdle
    /\ LoaderIdle
    /\ PathsIdle
    /\ TemplateIdle
    /\ DownloadIdle

\* suite.save(name, path, stdout)
Save ==
    /\ returned.op = "none"
    /\ reloaded = NotCalled
    /\ \E saved \in {TestSuiteSave(suite, suite_path, suite_file, stdout)} :
          /\ suite_file' = saved.file
          /\ returned' = Call("save", None, <<>>, None, MatchDefault, saved.res)
    /\ UNCHANGED <<suite, suite_path, stdout, reloaded, tester_commands,
                   tester_compilacions, cases, archive, mined, extensions, template,
                   zip_conf, disk, result, text_vars, download_vars>>

\* TestSuite::load(path)?
Loaded == TestSuiteLoad(suite_file, suite_path.path)

\* let mut suite = TestSuite::load(path)?; suite.<method>(..)?;
\* suite.save(name, path, stdout): the state after a modify_* function whose
\* method leaves m (its result and the suite after it).
Modified(m, call) ==
    /\ IF ~Loaded.ok
       THEN /\ returned' = [call EXCEPT !.res = Loaded]
            /\ UNCHANGED <<suite, suite_file>>
       ELSE /\ suite' = m.suite
            /\ IF ~m.res.ok
               THEN /\ returned' = [call EXCEPT !.res = m.res]
                    /\ UNCHANGED suite_file
               ELSE \E saved \in {TestSuiteSave(m.suite, suite_path, suite_file, stdout)} :
                       /\ returned' = [call EXCEPT !.res = saved.res]
                       /\ suite_file' = saved.file
    /\ UNCHANGED <<suite_path, stdout, reloaded, tester_commands, tester_compilacions,
                   cases, archive, mined, extensions, template, zip_conf, disk, result, text_vars, download_vars>>

\* pub(crate) fn modify_timelimit
ModifyTimelimit ==
    /\ returned.op \in {"none", "save"}
    /\ reloaded = NotCalled
    /\ \E timelimit \in {None, Some(1000)} :
           Modified(TestSuiteModifyTimelimit(Loaded.val, suite_path.path, timelimit),
                    Call("modify_timelimit", timelimit, <<>>, None, MatchDefault, NotCalled))

\* pub(crate) fn modify_append
ModifyAppend ==
    /\ returned.op \in {"none", "save"}
    /\ reloaded = NotCalled
    /\ \E c \in FileCases :
           Modified(TestSuiteAppend(Loaded.val, c.input, c.output),
                    Call("modify_append", None, c.input, c.output, MatchDefault, NotCalled))

\* pub(crate) fn modify_match
ModifyMatch ==
    /\ returned.op \in {"none", "save"}
    /\ reloaded = NotCalled
    /\ \E output_match \in FileMatches :
           Modified(TestSuiteModifyMatch(Loaded.val, output_match),
                    Call("modify_match", None, <<>>, None, output_match, NotCalled))

\* TestSuite::load(path)
Load ==
    /\ reloaded = NotCalled
    /\ reloaded' = Loaded
    /\ UNCHANGED <<suite, suite_path, suite_file, stdout, returned, tester_commands,
                   tester_compilacions, cases, archive, mined, extensions, template,
                   zip_conf, disk, result, text_vars, download_vars>>

NextFile == Save \/ ModifyTimelimit \/ ModifyAppend \/ ModifyMatch \/ Load

SpecFile == InitFile /\ [][NextFile]_vars

----------------------------------------------------------------------------
(* SpecPaths: format_paths is applied once to a list of paths *)

\* The paths of the lists: every text of a and b up to MaxPathLen characters,
\* and paths that differ in one segment or in the length of the extension.
PathStrings ==
    BoundedSeq({"a", "b"}, MaxPathLen)
    \cup {<<"a", "/", "1", ".", "y", "a", "m", "l">>, <<"a", "/", "2", ".", "y", "a", "m", "l">>,
          <<"x", ".", "y", "a", "m", "l">>, <<"y", ".", "y", "a", "m", "l">>,
          <<"a", ".", "y", "a", "m", "l">>, <<"a", ".", "y", "m", "l">>,
          <<"a", ".", "j", "s", "o", "n">>}

InitPaths ==
    /\ given_paths \in BoundedSeq(PathStrings, MaxPaths)
    /\ compressed = NotCalled
    /\ CasesIdle
    /\ tester_commands = DefaultCommands
    /\ tester_compilacions = DefaultCompilations
    /\ zip_conf = NoZipConf
    /\ ZipIdle
    /\ LoaderIdle
    /\ FileIdle
    /\ TemplateIdle
    /\ DownloadIdle

\* format_paths(&filepaths)
FormatPaths ==
    /\ compressed = NotCalled
    /\ compressed' = Ok(format_paths(given_paths))
    /\ UNCHANGED <<suite, tester_commands, tester_compilacions, cases, archive, mined,
                   extensions, template, zip_conf, disk, result, file_vars, given_paths,
                   tmpl_string, tmpl_vars, tmpl_target, formatted, download_vars>>

SpecPaths == InitPaths /\ [][FormatPaths]_vars

----------------------------------------------------------------------------
(* SpecTemplate: TemplateString::format (src/src/config.rs) is applied once *)

\* str::camelize on a target of letters: the first letter in upper case.
camelize(s) ==
    IF s = <<>> THEN <<>>
    ELSE <<CASE s[1] = "a" -> "A" [] s[1] = "b" -> "B" [] s[1] = "c" -> "C"
             [] OTHER -> s[1]>> \o Tail(s)

TrimNothing(s) == s

\* trim_lr: the capture of ^\s*(\S*)\s*$, or the text itself without a match.
trim_lr(s) ==
    LET ws == {" ", "\t", "\n"}
        inner == {k \in DOMAIN s : s[k] \notin ws}
    IN IF inner = {} THEN <<>>
       ELSE The({IF \A k \in a..b : k \in inner THEN SubSeq(s, a, b) ELSE s :
                 <<a, b>> \in {<<CHOOSE k \in inner : \A j \in inner : k <= j,
                                 CHOOSE k \in inner : \A j \in inner : k >= j>>}})

\* State::close: the token of the state that ends, unless it is an empty Plain.
Close(state, tokens) ==
    IF state.kind = "Plain"
    THEN IF state.s = <<>> THEN tokens ELSE Append(tokens, [kind |-> "Text", s |-> state.s])
    ELSE Append(tokens, [kind |-> IF state.kind = "Dollar" THEN "Var" ELSE "Target",
                         s |-> state.s])

\* tokenize, from the i-th character on, followed by State::end.
RECURSIVE Tokenize(_, _, _, _)
Tokenize(tmpl, i, state, tokens) ==
    IF i > Len(tmpl)
    THEN IF state.kind = "Brace" THEN Err("Syntax", tmpl)
         ELSE Ok(Append(tokens, [kind |-> IF state.kind = "Plain" THEN "Text" ELSE "Var",
                                 s |-> state.s]))
    ELSE CASE state.kind = "Brace" /\ tmpl[i] = "{" -> Err("Syntax", tmpl)
           [] state.kind = "Brace" /\ tmpl[i] = "}" ->
                Tokenize(tmpl, i + 1, [kind |-> "Plain", s |-> <<>>], Close(state, tokens))
           [] state.kind # "Brace" /\ tmpl[i] = "$" ->
                Tokenize(tmpl, i + 1, [kind |-> "Dollar", s |-> <<>>], Close(state, tokens))
           [] state.kind # "Brace" /\ tmpl[i] = "{" ->
                Tokenize(tmpl, i + 1, [kind |-> "Brace", s |-> <<>>], Close(state, tokens))
           [] state.kind # "Brace" /\ tmpl[i] = "}" -> Err("Syntax", tmpl)
           [] state.kind = "Dollar" /\ tmpl[i] \in {" ", "/", "\\"} ->
                Tokenize(tmpl, i + 1, [kind |-> "Plain", s |-> <<tmpl[i]>>],
                         Close(state, tokens))
           [] OTHER ->
                Tokenize(tmpl, i + 1, [state EXCEPT !.s = Append(@, tmpl[i])], tokens)

TransformDefaulting(token, whole, variables) ==
    CASE token.kind = "Text" -> Ok([kind |-> "Plain", s |-> token.s])
      [] token.kind = "Var" ->
            Ok([kind |-> "Plain",
                s |-> IF token.s \in DOMAIN variables THEN variables[token.s] ELSE <<>>])
      [] token.kind = "Target" -> Ok([kind |-> "Target", s |-> <<>>])

\* Token::transform
transform(token, whole, variables) ==
    CASE token.kind = "Text" -> Ok([kind |-> "Plain", s |-> token.s])
      [] token.kind = "Var" ->
            IF token.s \in DOMAIN variables
            THEN Ok([kind |-> "Plain", s |-> variables[token.s]])
            ELSE Err("NoSuchVariable", <<whole, token.s, DOMAIN variables>>)
      [] token.kind = "Target" ->
            The({IF s = <<>> THEN Ok([kind |-> "Target", s |-> <<>>])
                 ELSE IF s \in {<<"c">>, <<"C">>}
                      THEN Ok([kind |-> "TargetCamelized", s |-> <<>>])
                      ELSE Err("NoSuchSpecifier", <<whole, s>>) :
                 s \in {trim_lr(token.s)}})

\* embed_vars: the results it can give; the variable it rejects is the first
\* invalid one in the iteration order of the HashMap.
embed_vars(tmpl, variables) ==
    LET invalid == {k \in DOMAIN variables :
                        \E j \in DOMAIN k : k[j] \in {"$", "/", "\\", "{", "}", " "}}
    IN IF invalid # {} THEN {Err("InvalidVariable", k) : k \in invalid}
       ELSE {IF ~tokens.ok THEN tokens
             ELSE Collect([k \in DOMAIN tokens.val |->
                              transform(tokens.val[k], tmpl, variables)]) :
             tokens \in {Tokenize(tmpl, 1, [kind |-> "Plain", s |-> <<>>], <<>>)}}

\* Template::format
RECURSIVE TemplateFormat(_, _)
TemplateFormat(tokens, target) ==
    IF tokens = <<>> THEN <<>>
    ELSE TemplateFormat(SubSeq(tokens, 1, Len(tokens) - 1), target)
         \o (CASE tokens[Len(tokens)].kind = "Plain" -> tokens[Len(tokens)].s
               [] tokens[Len(tokens)].kind = "Target" -> target
               [] tokens[Len(tokens)].kind = "TargetCamelized" -> camelize(target))

\* TemplateString::format
TemplateStringFormat(tmpl, target, variables) ==
    {IF transformed.ok THEN Ok(TemplateFormat(transformed.val, target)) ELSE transformed :
     transformed \in embed_vars(tmpl, variables)}

\* The templates are every text of the characters that tokenize tells apart up
\* to MaxTemplateLen characters and the templates of the tests of config.rs;
\* the variables are those of the tests, with a key that embed_vars rejects.
InitTemplate ==
    /\ tmpl_string \in
          BoundedSeq({"$", "{", "}", "c", " ", "/"}, MaxTemplateLen)
          \cup {<<"{", " ", "c", " ", "}", "/", "{", "c", "}", "/", "{", "C", "}">>,
                <<"c", "c", "/", "{", "}", ".", "c", "c">>,
                <<"$", "c", "\\", "{", "c", " ", "c", "}">>,
                <<"{", "}", "/", "{", "{", "}", "}">>,
                <<"$", "c", "/", "$", "b", "/", "$">>}
    /\ tmpl_vars \in
          {<<>>,
           <<>> :> <<"A", "A", "A">>,
           <<"c">> :> <<"X">>,
           (<<>> :> <<"A", "A", "A">>) @@ (<<"c">> :> <<"X">>) @@ (<<"b">> :> <<"$", "{">>),
           (<<"c">> :> <<"X">>) @@ (<<"c", "/">> :> <<"Y">>)}
    /\ tmpl_target \in {<<>>, <<"a">>}
    /\ formatted = NotCalled
    /\ CasesIdle
    /\ tester_commands = DefaultCommands
    /\ tester_compilacions = DefaultCompilations
    /\ zip_conf = NoZipConf
    /\ ZipIdle
    /\ LoaderIdle
    /\ FileIdle
    /\ PathsIdle
    /\ DownloadIdle

\* self.format(target, &vars)
Format ==
    /\ formatted = NotCalled
    /\ formatted' \in TemplateStringFormat(tmpl_string, tmpl_target, tmpl_vars)
    /\ UNCHANGED <<suite, tester_commands, tester_compilacions, cases, archive, mined,
                   extensions, template, zip_conf, disk, result, file_vars, given_paths,
                   compressed, tmpl_string, tmpl_vars, tmpl_target, download_vars>>

SpecTemplate == InitTemplate /\ [][Format]_vars

----------------------------------------------------------------------------
(* SpecDownload: one download run of a service (src/src/service)           *)
(* Yukicoder::download and AtCoderBeta::download_all_tasks, step by step   *)

At(at, i) == [at |-> at, i |-> i]

\* Where the run goes once the i-th page is dealt with: to the next page, and
\* after the last one to filter_solved (yukicoder) or to the first save.
AfterPage(i) ==
    IF i < Len(pages) THEN At("scrape", i + 1)
    ELSE IF service = "yukicoder" THEN At("filter", 0)
         ELSE IF outputs' = <<>> THEN At("rest", 0) ELSE At("save", 1)

ScrapedAndSaved(outs, wr, i) == [outputs |-> Append(outs, i), written |-> Append(wr, i)]

\* outputs.push((url, name, suite, path)): scraping writes no file.
Scraped(outs, wr, i) == [outputs |-> Append(outs, i), written |-> wr]

InitDownload ==
    /\ service \in {"yukicoder", "atcoder_beta"}
    /\ pages \in BoundedSeq(IF service = "yukicoder"
                            THEN {"ok", "fail", "not_found", "not_public"}
                            ELSE {"ok", "fail"}, MaxProblems)
    /\ pc = At("start", 0)
    /\ outputs = <<>>
    /\ written = <<>>
    /\ finished = NotCalled
    /\ CasesIdle
    /\ tester_commands = DefaultCommands
    /\ tester_compilacions = DefaultCompilations
    /\ zip_conf = NoZipConf
    /\ ZipIdle
    /\ LoaderIdle
    /\ FileIdle
    /\ PathsIdle
    /\ TemplateIdle

\* self.login(false)? / extract_task_urls_with_names(self.http_get(..)?)?
Begin ==
    /\ pc.at = "start"
    /\ \/ /\ pc' = IF pages # <<>> THEN At("scrape", 1)
                   ELSE IF service = "yukicoder" THEN At("filter", 0) ELSE At("rest", 0)
          /\ UNCHANGED finished
       \/ /\ pc' = At("done", 0)
          /\ finished' = Err("Service", "start")
    /\ UNCHANGED <<suite, tester_commands, tester_compilacions, cases, archive, mined,
                   extensions, template, zip_conf, disk, result, file_vars, text_vars,
                   service, pages, outputs, written>>

\* One turn of the scraping loop: the page is fetched and, unless it is not
\* found or not public, scraped; an error of either returns through `?`.
Scrape ==
    /\ pc.at = "scrape"
    /\ IF pages[pc.i] = "fail"
       THEN /\ pc' = At("done", 0)
            /\ finished' = Err("Scrape", pc.i)
            /\ UNCHANGED <<outputs, written>>
       ELSE /\ IF pages[pc.i] = "ok"
               THEN /\ outputs' = Scraped(outputs, written, pc.i).outputs
                    /\ written' = Scraped(outputs, written, pc.i).written
               ELSE UNCHANGED <<outputs, written>>
            /\ pc' = AfterPage(pc.i)
            /\ UNCHANGED finished
    /\ UNCHANGED <<suite, tester_commands, tester_compilacions, cases, archive, mined,
                   extensions, template, zip_conf, disk, result, file_vars, text_vars,
                   service, pages>>

\* let nos = self.filter_solved(&nos)?
FilterSolved ==
    /\ pc.at = "filter"
    /\ \/ /\ pc' = IF outputs = <<>> THEN At("rest", 0) ELSE At("save", 1)
          /\ UNCHANGED finished
       \/ /\ pc' = At("done", 0)
          /\ finished' = Err("Service", "filter_solved")
    /\ UNCHANGED <<suite, tester_commands, tester_compilacions, cases, archive, mined,
                   extensions, template, zip_conf, disk, result, file_vars, text_vars,
                   service, pages, outputs, written>>

\* One turn of the saving loop, suite.save(&name, path, self.stdout())?: the
\* file is written or not, and an error of the write or of the report returns.
SaveSuite ==
    /\ pc.at = "save"
    /\ \E wrote, failed \in BOOLEAN :
          /\ ~wrote => failed
          /\ written' = IF wrote THEN Append(written, outputs[pc.i]) ELSE written
          /\ IF failed
             THEN /\ pc' = At("done", 0)
                  /\ finished' = Err("Save", pc.i)
             ELSE /\ pc' = IF pc.i < Len(outputs) THEN At("save", pc.i + 1) ELSE At("rest", 0)
                  /\ UNCHANGED finished
    /\ UNCHANGED <<suite, tester_commands, tester_compilacions, cases, archive, mined,
                   extensions, template, zip_conf, disk, result, file_vars, text_vars,
                   service, pages, outputs>>

\* The rest of the run (the archives of yukicoder, the browser) and its return.
Finish ==
    /\ pc.at = "rest"
    /\ pc' = At("done", 0)
    /\ finished' \in {Ok(<<>>), Err("Service", "rest")}
    /\ UNCHANGED <<suite, tester_commands, tester_compilacions, cases, archive, mined,
                   extensions, template, zip_conf, disk, result, file_vars, text_vars,
                   service, pages, outputs, written>>

NextDownload ==
    \/ Begin
    \/ Scrape
    \/ FilterSolved
    \/ SaveSuite
    \/ Finish

SpecDownload == InitDownload /\ [][NextDownload]_vars

----------------------------------------------------------------------------
(* Claims about materialization, under SpecCases *)

Materialized == cases # NotCalled

SourceLen == IF suite.type = "simple" THEN Len(suite.cases) ELSE Len(suite.each_args)

IndexText == <<"0", "1", "2", "3", "4", "5", "6", "7", "8", "9">>

\* C6: a successful materialization of a suite with N cases yields exactly N
\* cases in suite order; case i (0-based) is named "{filename}[{i}]" and carries
\* the timelimit of the suite.
C6_CasesNamed ==
    (Materialized /\ cases.ok) =>
        /\ Len(cases.val) = SourceLen
        /\ \A k \in 1..SourceLen :
            /\ cases.val[k].name = SuiteFileName \o <<"[", IndexText[k], "]">>
            /\ cases.val[k].timelimit = suite.timelimit
            /\ suite.type = "simple" => cases.val[k].input = suite.cases[k].input
            /\ suite.type = "interactive" =>
                 cases.val[k].tester.strings[<<"*">>] = Join(suite.each_args[k], <<" ">>)

C6_Witness ==
    /\ suite.type = "simple"
    /\ Len(suite.cases) = 2
    /\ suite.timelimit = Some(2000)
    /\ cases.ok
    /\ Len(cases.val) = 2
    /\ cases.val[1].name = <<"a", ".", "y", "m", "l", "[", "0", "]">>
    /\ cases.val[2].name = <<"a", ".", "y", "m", "l", "[", "1", "]">>

\* C7: SimpleCase::new derives the expectation from the match policy and the
\* stored output: Any keeps the output as example; Exact or Float without an
\* output gives Any(None); Exact with s gives Exact(s); Float(rel, abs) with s
\* gives Float(s, abs, rel) with both thresholds unchanged.
C7_Expectation ==
    (Materialized /\ suite.type = "simple") =>
        \A k \in 1..Len(suite.cases) :
            LET m == suite.output_match
                o == suite.cases[k].output
                e == cases.val[k].expected
            IN /\ m.kind = "Any" => e = [kind |-> "Any", example |-> o]
               /\ (m.kind \in {"Exact", "Float"} /\ o = None) =>
                    e = [kind |-> "Any", example |-> None]
               /\ (m.kind = "Exact" /\ o # None) =>
                    e = [kind |-> "Exact", string |-> o[1]]
               /\ (m.kind = "Float" /\ o # None) =>
                    /\ e.kind = "Float"
                    /\ e.string = o[1]
                    /\ e.relative_error = m.relative_error
                    /\ e.absolute_error = m.absolute_error

C7_Witness ==
    /\ suite.type = "simple"
    /\ suite.output_match =
         [kind |-> "Float", relative_error |-> "NaN", absolute_error |-> "1e-9"]
    /\ Len(suite.cases) = 2
    /\ suite.cases[1].output = Some(<<"3">>)
    /\ suite.cases[2].output = None
    /\ cases.ok
    /\ cases.val[1].expected.kind = "Float"
    /\ cases.val[1].expected.absolute_error = "1e-9"
    /\ cases.val[2].expected = [kind |-> "Any", example |-> None]

\* C8 as stated: every Interactive suite without a tester language fails with
\* LanguageNotSpecified, and every one whose language has no tester command
\* fails with NoSuchLanguage.
C8_Original ==
    (Materialized /\ suite.type = "interactive") =>
        /\ suite.tester = None => cases = Err("LanguageNotSpecified", <<>>)
        /\ (suite.tester # None /\ suite.tester[1] \notin DOMAIN tester_commands) =>
             cases = Err("NoSuchLanguage", suite.tester[1])

\* C8 amended: an Interactive suite with at least one argument list fails with
\* LanguageNotSpecified when it declares no tester language, and with
\* NoSuchLanguage(name) when the declared language has no tester command and
\* the build command of that language, if there is one, expanded without
\* error; no case is produced.  A suite without argument lists materializes
\* to the empty case list whatever its tester.
C8_TesterLanguage ==
    (Materialized /\ suite.type = "interactive") =>
        /\ suite.each_args = <<>> => cases = Ok(<<>>)
        /\ (suite.each_args # <<>> /\ suite.tester = None) =>
             cases = Err("LanguageNotSpecified", <<>>)
        /\ ( /\ suite.each_args # <<>>
             /\ suite.tester # None
             /\ suite.tester[1] \notin DOMAIN tester_commands
             /\ suite.tester[1] \in DOMAIN tester_compilacions =>
                  tester_compilacions[suite.tester[1]].expandable ) =>
             cases = Err("NoSuchLanguage", suite.tester[1])

C8_Witness ==
    /\ suite.type = "interactive"
    /\ Len(suite.each_args) = 2
    /\ suite.tester = Some(Rb)
    /\ Rb \notin DOMAIN tester_commands
    /\ Rb \in DOMAIN tester_compilacions
    /\ cases = Err("NoSuchLanguage", Rb)

\* C9: the substitution environment of every Interactive case binds "*" to the
\* arguments joined by single spaces and key "k", k in 1..9, to the k-th
\* argument, or to the empty string when there are fewer than k arguments,
\* whatever the number of arguments and the index of the case.
C9_Environment ==
    (Materialized /\ suite.type = "interactive" /\ cases.ok) =>
        \A c \in 1..Len(cases.val) :
            LET args == suite.each_args[c]
                m == cases.val[c].tester.strings
            IN /\ m[<<"*">>] = Join(args, <<" ">>)
               /\ \A k \in 1..9 :
                    m[<<IndexText[k + 1]>>] = IF k <= Len(args) THEN args[k] ELSE <<>>

----------------------------------------------------------------------------
(* Claims about ZIP mining, under SpecZip *)

\* The identifier a rule captures from a member name, if the rule matches and
\* the configured group exists.
Captured(rule, name) ==
    LET caps == Captures(rule.entry, name)
    IN IF caps = None THEN None ELSE CapsGet(caps[1], rule.match_group)

\* The positions of the members from which the rule captures id.
PositionsOf(members, rule, id) ==
    {k \in 1..Len(members) : Captured(rule, members[k].name) = Some(id)}

CapturedAt(rule, id) == PositionsOf(archive.members, rule, id)

\* Every prefix of a member name: the identifiers a rule can capture.
Stems(members) ==
    UNION {{SubSeq(members[k].name, 1, j) : j \in 1..Len(members[k].name)} :
            k \in DOMAIN members}

\* The identifiers a group captures on both sides.
BothSides(e, members) ==
    {id \in Stems(members) :
        PositionsOf(members, e.input, id) # {} /\ PositionsOf(members, e.output, id) # {}}

Last(S) == CHOOSE k \in S : \A j \in S : j <= k

OneGroupMined ==
    /\ mined # NotCalled
    /\ mined.ok
    /\ archive.kind = "zip"
    /\ Len(zip_conf.entries) = 1

\* C10: after the scan of all members, one group yields exactly one case per
\* identifier captured on both sides and none for the others; the case is
\* named "{archiveFilename}:{identifier}" and holds the content recorded on the
\* input side as input and the content recorded on the output side as
\* expected output.
C10_ZipPairs ==
    OneGroupMined =>
        LET e == zip_conf.entries[1]
            both == BothSides(e, archive.members)
        IN /\ Len(mined.val) = Cardinality(both)
           /\ \A id \in both :
                \E k \in 1..Len(mined.val) :
                    LET c == mined.val[k]
                        i == archive.members[Last(CapturedAt(e.input, id))].content
                        o == archive.members[Last(CapturedAt(e.output, id))].content
                    IN /\ c.name = ZipFileName \o <<":">> \o id
                       /\ c.input = IF e.input.crlf_to_lf THEN ReplaceCrlf(i) ELSE i
                       /\ c.expected =
                            [kind |-> "Exact",
                             string |-> IF e.output.crlf_to_lf THEN ReplaceCrlf(o) ELSE o]

C10_Witness ==
    /\ OneGroupMined
    /\ zip_conf.entries[1].input = Rule(<<".", "i">>, 1, 1, TRUE)
    /\ zip_conf.entries[1].output = Rule(<<".", "o">>, 1, 1, FALSE)
    /\ \E k \in DOMAIN archive.members : archive.members[k].name = <<"x", ".", "i">>
    /\ \A k \in DOMAIN archive.members : archive.members[k].name # <<"x", ".", "o">>
    /\ Len(mined.val) = 2
    /\ \E k \in 1..2 :
        /\ mined.val[k].name = <<"a", ".", "z", "i", "p", ":", "1", "0">>
        /\ mined.val[k].input = <<"A", "\n">>
        /\ mined.val[k].expected = [kind |-> "Exact", string |-> <<"B", "\r", "\n">>]
    /\ \E k \in 1..2 :
        mined.val[k].name = <<"a", ".", "z", "i", "p", ":", "9">>

\* The identifier of a mined case: its name after "{archiveFilename}:".
IdOf(c) == SubSeq(c.name, Len(ZipFileName) + 2, Len(c.name))

\* The keys of the list that tell a from b.
Telling(sorts, a, b) == {j \in DOMAIN sorts : SortingCmp(sorts[j], a, b) # "Equal"}

\* C11: the sort keys of a group act as successive stable sorts in listed
\* order: of two mined cases, the one that comes first is the lesser under the
\* last listed key that tells their identifiers apart, so the last key
\* dominates and an earlier key decides only among identifiers that every
\* later key compares as equal.
C11_SuccessiveSorts ==
    OneGroupMined =>
        LET sorts == zip_conf.entries[1].sort
        IN \A k, l \in DOMAIN mined.val :
            LET a == IdOf(mined.val[k])
                b == IdOf(mined.val[l])
            IN (k < l /\ Telling(sorts, a, b) # {}) =>
                    SortingCmp(sorts[Last(Telling(sorts, a, b))], a, b) = "Less"

C11_Witness ==
    /\ OneGroupMined
    /\ zip_conf.entries[1].sort = <<"Dictionary", "Number">>
    /\ Len(mined.val) = 3
    /\ IdOf(mined.val[1]) = <<"1", "0", ".", "i">>
    /\ IdOf(mined.val[2]) = <<"9", ".", "i">>
    /\ IdOf(mined.val[3]) = <<"x", ".", "i">>
    /\ archive.members[1].name = <<"x", ".", "i">>

\* The first position at which two identifiers differ, one past the shorter
\* when one is a prefix of the other.
FirstDifference(a, b) ==
    CHOOSE p \in 1..(Max(Len(a), Len(b)) + 1) :
        /\ \A q \in 1..(p - 1) : q <= Len(a) /\ q <= Len(b) /\ a[q] = b[q]
        /\ p > Len(a) \/ p > Len(b) \/ a[p] # b[p]

\* Lexicographic order of strings by bytes.
LexLess(a, b) ==
    LET p == FirstDifference(a, b)
    IN /\ p <= Len(b)
       /\ p > Len(a) \/ Code(a[p]) < Code(b[p])

IsNumeric(id) == ParseUsize(id) # None

\* C12: under the Number key alone the numeric identifiers come in the order
\* of their values and before every non-numeric identifier; two non-numeric
\* identifiers compare equal, so Number after Dictionary leaves them in
\* dictionary order; under Dictionary alone the identifiers come in
\* lexicographic string order.
C12_NumberKey ==
    OneGroupMined =>
        LET sorts == zip_conf.entries[1].sort
        IN \A k, l \in DOMAIN mined.val :
            LET a == IdOf(mined.val[k])
                b == IdOf(mined.val[l])
            IN k < l =>
                /\ (sorts \in {<<"Number">>, <<"Dictionary", "Number">>}) =>
                      /\ (IsNumeric(a) /\ IsNumeric(b)) =>
                            ParseUsize(a)[1] <= ParseUsize(b)[1]
                      /\ IsNumeric(b) => IsNumeric(a)
                /\ (sorts = <<"Dictionary", "Number">>
                        /\ ~IsNumeric(a) /\ ~IsNumeric(b)) => LexLess(a, b)
                /\ (sorts = <<"Dictionary">>) => LexLess(a, b)

C12_Witness ==
    /\ OneGroupMined
    /\ zip_conf.entries[1].sort = <<"Number">>
    /\ Len(mined.val) = 3
    /\ IdOf(mined.val[1]) = <<"9">>
    /\ IdOf(mined.val[2]) = <<"1", "0">>
    /\ IdOf(mined.val[3]) = <<"x">>

\* C13: the order of the mined cases is deterministic: the result of the load
\* is the only result the load can return for this archive and this mining
\* configuration, whatever the iteration order of the map of pairs.
C13_Deterministic ==
    mined # NotCalled =>
        \A r \in ZipConfigLoad(zip_conf, archive, ZipFileName) : r = mined

\* A rule of the configuration matches a member name and its configured group
\* index exceeds the number of groups of its regex.
GroupExceeded(rule) ==
    /\ rule.match_group > rule.entry.groups
    /\ \E k \in DOMAIN archive.members :
            Captures(rule.entry, archive.members[k].name) # None

RulesOf(conf) ==
    UNION {{conf.entries[g].input, conf.entries[g].output} : g \in DOMAIN conf.entries}

\* C14: mining fails with RegexGroupOutOfBounds(index) exactly when a rule
\* matches a member name and its configured group index exceeds the number of
\* groups of its regex; the failure returns no case, and a match whose
\* configured group exists never raises the error.
C14_GroupOutOfBounds ==
    (mined # NotCalled /\ archive.kind = "zip") =>
        /\ (~mined.ok /\ mined.err.kind = "RegexGroupOutOfBounds")
                <=> \E rule \in RulesOf(zip_conf) : GroupExceeded(rule)
        /\ (~mined.ok /\ mined.err.kind = "RegexGroupOutOfBounds") =>
                \E rule \in RulesOf(zip_conf) :
                    /\ GroupExceeded(rule)
                    /\ mined.err.detail = UsizeToString(rule.match_group)

HasCrlf(s) == \E j \in 1..(Len(s) - 1) : s[j] = "\r" /\ s[j + 1] = "\n"

\* C27: the content recorded for a member is its text with every "\r\n"
\* replaced by "\n" when the crlf_to_lf flag of the matching rule is set and
\* its unmodified text when the flag is not set, decided for the input rule
\* and for the output rule on their own, also when one member is matched by
\* both rules of the group.
C27_CrlfPerRule ==
    OneGroupMined =>
        \A k \in 1..Len(mined.val) :
            LET e == zip_conf.entries[1]
                c == mined.val[k]
                i == archive.members[Last(CapturedAt(e.input, IdOf(c)))].content
                o == archive.members[Last(CapturedAt(e.output, IdOf(c)))].content
            IN /\ IF e.input.crlf_to_lf
                  THEN ~HasCrlf(c.input) /\ c.input = ReplaceCrlf(i)
                  ELSE c.input = i
               /\ IF e.output.crlf_to_lf
                  THEN ~HasCrlf(c.expected.string) /\ c.expected.string = ReplaceCrlf(o)
                  ELSE c.expected.string = o

\* The member 10.i is matched by both rules of the group and is recorded
\* normalized as input and unmodified as expected output.
C27_Witness ==
    /\ OneGroupMined
    /\ zip_conf.entries[1].input = Rule(<<".", "i">>, 1, 1, TRUE)
    /\ zip_conf.entries[1].output = Rule(<<".", "i">>, 1, 1, FALSE)
    /\ \E k \in 1..Len(mined.val) :
        /\ IdOf(mined.val[k]) = <<"1", "0">>
        /\ mined.val[k].input = <<"A", "\n">>
        /\ mined.val[k].expected.string = <<"A", "\r", "\n">>

----------------------------------------------------------------------------
(* Claims about load_merging, under Spec *)

Called == result # NotCalled

\* The configured extensions whose candidate file exists.
Probed == {e \in extensions : disk[e] # Absent}

IsSuite(e, type) == disk[e].kind = "suite" /\ disk[e].suite.type = type

BatchFiles == {e \in Probed : IsSuite(e, "simple")}
InteractiveFiles == {e \in Probed : IsSuite(e, "interactive")}

\* The identifiers the mining configuration pairs up in the archive.
ZipIds ==
    IF "zip" \in Probed /\ disk["zip"].kind = "zip"
    THEN UNION {BothSides(zip_conf.entries[g], disk["zip"].members) :
                    g \in DOMAIN zip_conf.entries}
    ELSE {}

BatchGathered == (\E e \in BatchFiles : disk[e].suite.cases # <<>>) \/ ZipIds # {}
InteractiveGathered == \E e \in InteractiveFiles : disk[e].suite.each_args # <<>>

\* Every existing candidate file is read and materialized without an error.
NoLoadError ==
    /\ template.expandable
    /\ \A e \in Probed : disk[e] # Corrupt /\ ~IsSuite(e, "unsubmittable")
    /\ \A e \in InteractiveFiles :
        disk[e].suite.each_args # <<>> =>
            /\ disk[e].suite.tester # None
            /\ disk[e].suite.tester[1] \in DOMAIN tester_commands
            /\ tester_commands[disk[e].suite.tester[1]].expandable
            /\ disk[e].suite.tester[1] \in DOMAIN tester_compilacions =>
                 tester_compilacions[disk[e].suite.tester[1]].expandable

IsInteractiveCase(c) == "tester" \in DOMAIN c

\* C1: load_merging never returns Ok with cases of both kinds: when Batch and
\* Interactive cases are both gathered the result is DifferentTypesOfSuites,
\* and an Ok result holds cases of one kind only.
C1_NoMixing ==
    Called =>
        /\ result.ok =>
            /\ ~(BatchGathered /\ InteractiveGathered)
            /\ result.val.kind \in {"Simple", "Interactive"}
            /\ \A k \in 1..Len(result.val.cases) :
                IsInteractiveCase(result.val.cases[k]) <=> result.val.kind = "Interactive"
        /\ (NoLoadError /\ BatchGathered /\ InteractiveGathered) =>
             result = Err("DifferentTypesOfSuites", <<>>)

C1_Witness ==
    /\ Called
    /\ IsSuite("json", "interactive")
    /\ disk["json"].suite.each_args # <<>>
    /\ ZipIds # {}
    /\ BatchFiles = {}
    /\ result = Err("DifferentTypesOfSuites", <<>>)

\* C2 as stated, granted that every file is read and materialized without
\* error: a Batch suite file and an Interactive suite file among the
\* candidates, with any number of cases, make load_merging fail with
\* DifferentTypesOfSuites.
C2_Original ==
    (Called /\ NoLoadError /\ BatchFiles # {} /\ InteractiveFiles # {}) =>
        result = Err("DifferentTypesOfSuites", <<>>)

\* C2 amended: when every existing candidate file is read and materialized
\* without error, a Batch suite file with at least one case together with an
\* Interactive suite file with at least one argument list make load_merging
\* fail with DifferentTypesOfSuites; when Batch and Interactive suite files
\* both exist but one kind contributes no case at all, the result is not
\* DifferentTypesOfSuites.
C2_MixedFiles ==
    (Called /\ NoLoadError /\ BatchFiles # {} /\ InteractiveFiles # {}) =>
        /\ ( /\ \E e \in BatchFiles : disk[e].suite.cases # <<>>
             /\ \E e \in InteractiveFiles : disk[e].suite.each_args # <<>> ) =>
                result = Err("DifferentTypesOfSuites", <<>>)
        /\ ~(BatchGathered /\ InteractiveGathered) =>
                result # Err("DifferentTypesOfSuites", <<>>)

C2_Witness ==
    /\ Called
    /\ IsSuite("yaml", "simple")
    /\ Len(disk["yaml"].suite.cases) = 2
    /\ IsSuite("json", "interactive")
    /\ Len(disk["json"].suite.each_args) = 1
    /\ result = Err("DifferentTypesOfSuites", <<>>)

\* The candidate path of an extension.
CandidatePath(e) == <<"d", "/", "a", ".">> \o ExtToString(e)

\* The candidate paths of the extensions of S, in probe order.
RECURSIVE PathsIn(_, _)
PathsIn(S, order) ==
    IF order = <<>> THEN <<>>
    ELSE (IF order[1] \in S THEN <<CandidatePath(order[1])>> ELSE <<>>)
         \o PathsIn(S, Tail(order))

ProbeOrder == <<"json", "toml", "yaml", "yml", "zip">>

\* C3: when no Batch and no Interactive case is gathered, load_merging fails
\* with NoFile, whose detail is the path compression of every candidate path,
\* one per configured extension, existing or not.
C3_NoFile ==
    Called =>
        /\ (NoLoadError /\ ~BatchGathered /\ ~InteractiveGathered) =>
             result = Err("NoFile", format_paths(PathsIn(extensions, ProbeOrder)))
        /\ (~result.ok /\ result.err.kind = "NoFile") =>
             /\ ~BatchGathered /\ ~InteractiveGathered
             /\ result.err.detail = format_paths(PathsIn(extensions, ProbeOrder))

C3_Witness ==
    /\ Called
    /\ extensions = AllExtensions
    /\ Probed = {"yaml"}
    /\ result = Err("NoFile",
                    <<"d", "/", "a", ".", "{", "j", "s", "o", "n", ",", " ",
                      "t", "o", "m", "l", ",", " ", "y", "a", "m", "l", ",", " ",
                      "y", "m", "l", ",", " ", "z", "i", "p", "}">>)

\* The existing candidate files that contributed at least one case.
Contributors ==
    {e \in BatchFiles : disk[e].suite.cases # <<>>}
    \cup {e \in InteractiveFiles : disk[e].suite.each_args # <<>>}
    \cup (IF ZipIds # {} THEN {"zip"} ELSE {})

\* C4 as stated: an Ok result holds a non-empty case list and the path
\* compression of exactly the files that contributed at least one case.
C4_Original ==
    (Called /\ result.ok) =>
        /\ result.val.cases # <<>>
        /\ result.val.paths = format_paths(PathsIn(Contributors, ProbeOrder))

\* C4 amended: an Ok result holds a non-empty case list and the path
\* compression of, in probe order, every existing candidate schema file (each
\* was loaded; it is listed whether or not it contributed a case) and the ZIP
\* archive only if it yielded at least one case.
C4_PathsLoaded ==
    (Called /\ result.ok) =>
        /\ result.val.cases # <<>>
        /\ result.val.paths =
             format_paths(PathsIn((Probed \ {"zip"}) \cup (Contributors \cap {"zip"}),
                                  ProbeOrder))

C4_Witness ==
    /\ Called
    /\ result.ok
    /\ IsSuite("json", "simple")
    /\ disk["json"].suite.cases = <<>>
    /\ IsSuite("yaml", "simple")
    /\ Len(disk["yaml"].suite.cases) = 1
    /\ disk["zip"] = ZipFile(<<>>)
    /\ "zip" \in extensions
    /\ result.val.paths =
         <<"d", "/", "a", ".", "{", "j", "s", "o", "n", ",", " ", "y", "a", "m", "l", "}">>

\* The names of the cases of the file of extension e, in the order of the file;
\* the cases of an archive are in the order of the Number sort.
NamesOf(e) ==
    LET filename == <<"a", ".">> \o ExtToString(e)
    IN IF e \notin Probed THEN <<>>
       ELSE IF e = "zip"
       THEN LET o == CHOOSE o \in Orders(ZipIds) :
                        \A a, b \in DOMAIN o :
                            a < b => ParseUsize(o[a])[1] < ParseUsize(o[b])[1]
            IN [k \in 1..Len(o) |-> filename \o <<":">> \o o[k]]
       ELSE IF IsSuite(e, "simple")
       THEN [k \in 1..Len(disk[e].suite.cases) |-> filename \o <<"[", IndexText[k], "]">>]
       ELSE [k \in 1..Len(disk[e].suite.each_args) |-> filename \o <<"[", IndexText[k], "]">>]

\* C5: an Ok result holds the cases of all the existing files (not of the
\* first only), concatenated in probe order json, toml, yaml, yml, zip, each
\* file's cases in their in-file order; the cases mined from the archive are
\* Batch cases that follow the others.
C5_Merged ==
    (Called /\ result.ok) =>
        /\ [k \in 1..Len(result.val.cases) |-> result.val.cases[k].name] =
             NamesOf("json") \o NamesOf("toml") \o NamesOf("yaml") \o NamesOf("yml")
             \o NamesOf("zip")
        /\ ZipIds # {} => result.val.kind = "Simple"

C5_Witness ==
    /\ Called
    /\ result.ok
    /\ IsSuite("json", "simple")
    /\ IsSuite("yml", "simple")
    /\ Len(disk["json"].suite.cases) = 2
    /\ Len(disk["yml"].suite.cases) = 1
    /\ Cardinality(ZipIds) = 2
    /\ [k \in 1..Len(result.val.cases) |-> result.val.cases[k].name] =
         << <<"a", ".", "j", "s", "o", "n", "[", "0", "]">>,
            <<"a", ".", "j", "s", "o", "n", "[", "1", "]">>,
            <<"a", ".", "y", "m", "l", "[", "0", "]">>,
            <<"a", ".", "z", "i", "p", ":", "9">>,
            <<"a", ".", "z", "i", "p", ":", "1", "0">> >>

UnsubmittableFiles == {e \in Probed : IsSuite(e, "unsubmittable")}

\* The position of an extension in the probe order.
ProbeIndex(e) == CHOOSE k \in DOMAIN ProbeOrder : ProbeOrder[k] = e

\* The candidate file of the extension is read and materialized without error.
LoadsCleanly(e) ==
    /\ disk[e] # Corrupt
    /\ (IsSuite(e, "interactive") /\ disk[e].suite.each_args # <<>>) =>
        /\ disk[e].suite.tester # None
        /\ disk[e].suite.tester[1] \in DOMAIN tester_commands
        /\ tester_commands[disk[e].suite.tester[1]].expandable
        /\ disk[e].suite.tester[1] \in DOMAIN tester_compilacions =>
             tester_compilacions[disk[e].suite.tester[1]].expandable

\* C18 as stated, granted that the candidate paths can be computed: when an
\* existing candidate schema file parses to Unsubmittable, load_merging fails
\* with the Unsubmittable error for the problem, whatever else exists.
C18_Original ==
    (Called /\ template.expandable /\ UnsubmittableFiles # {}) =>
        result = Err("Unsubmittable", Problem)

\* C18 amended: when an existing candidate schema file parses to
\* Unsubmittable, load_merging never returns Ok; its error is the
\* Unsubmittable error for the problem when the candidate paths can be computed
\* and every candidate file probed before the first Unsubmittable one is read
\* and materialized without error, and the error of the first failing step
\* otherwise.
C18_Unsubmittable ==
    (Called /\ UnsubmittableFiles # {}) =>
        /\ ~result.ok
        /\ ( /\ template.expandable
             /\ \A u \in UnsubmittableFiles :
                   \A e \in Probed : ProbeIndex(e) < ProbeIndex(u) => LoadsCleanly(e) ) =>
                result = Err("Unsubmittable", Problem)
        /\ result.err.kind \in {"Unsubmittable", "ExpandTemplate", "Deserialize",
                                "LanguageNotSpecified", "NoSuchLanguage"}

C18_Witness ==
    /\ Called
    /\ IsSuite("json", "simple")
    /\ Len(disk["json"].suite.cases) = 2
    /\ IsSuite("yaml", "unsubmittable")
    /\ ZipIds # {}
    /\ result = Err("Unsubmittable", Problem)

\* The archive at the ".zip" path holds a pair the mining configuration mines.
MinableZip ==
    /\ disk["zip"].kind = "zip"
    /\ \E g \in DOMAIN zip_conf.entries :
          BothSides(zip_conf.entries[g], disk["zip"].members) # {}

\* C26 as stated: an existing archive with a pair to mine is mined whatever
\* the configured extensions are, so with no other candidate file the result
\* is the mined cases.
C26_Original ==
    (/\ Called
     /\ template.expandable
     /\ MinableZip
     /\ \A e \in extensions \ {"zip"} : disk[e] = Absent)
    => result.ok /\ result.val.kind = "Simple"

\* C26: load_merging probes one candidate path per configured extension and
\* the ".zip" path only when zip is one of them: with zip configured an
\* existing archive with a pair to mine is mined, and with zip not configured
\* the archive is never opened and the result is what the other files give,
\* NoFile naming the configured paths when none of them exists.
C26_ZipConfigured ==
    (/\ Called
     /\ template.expandable
     /\ MinableZip
     /\ \A e \in extensions \ {"zip"} : disk[e] = Absent)
    => IF "zip" \in extensions
       THEN result.ok /\ result.val.kind = "Simple" /\ result.val.cases # <<>>
       ELSE result = Err("NoFile", format_paths(PathsIn(extensions, ProbeOrder)))

\* An archive with a pair exists, zip is not configured, and NoFile names the
\* two configured paths.
C26_Witness ==
    /\ Called
    /\ template.expandable
    /\ MinableZip
    /\ extensions = {"json", "toml", "yaml", "yml"}
    /\ Probed = {}
    /\ ~result.ok /\ result.err.kind = "NoFile"

\* C30 as stated: when a candidate file exists and every existing file is
\* read or mined without error, the result is not NoFile.
C30_Original ==
    (Called /\ NoLoadError /\ Probed # {})
    => ~(~result.ok /\ result.err.kind = "NoFile")

\* C30: load_merging fails with NoFile exactly when no case is gathered and no
\* file fails: when none of the candidate paths exists, and also when every
\* existing file is read or mined without error and holds no case and no
\* matching pair; with a case gathered the result is never NoFile.
C30_NoCase ==
    Called =>
        /\ (NoLoadError /\ Probed # {} /\ ~BatchGathered /\ ~InteractiveGathered)
            => ~result.ok /\ result.err.kind = "NoFile"
        /\ (NoLoadError /\ Probed = {}) => ~result.ok /\ result.err.kind = "NoFile"
        /\ (BatchGathered \/ InteractiveGathered)
            => ~(~result.ok /\ result.err.kind = "NoFile")

\* A Batch file without cases and an archive without a matching pair exist,
\* and the result is NoFile.
C30_Witness ==
    /\ Called
    /\ NoLoadError
    /\ IsSuite("json", "simple")
    /\ disk["json"].suite.cases = <<>>
    /\ "zip" \in Probed /\ disk["zip"].kind = "zip" /\ disk["zip"].members # <<>>
    /\ ~BatchGathered
    /\ ~result.ok /\ result.err.kind = "NoFile"

----------------------------------------------------------------------------
(* Claims about saving and modifying a suite file, under SpecFile *)

Modifications == {"modify_timelimit", "modify_append", "modify_match"}

\* The step is a call of op on a file that loads.
Modifies(op) == returned.op \notin Modifications /\ returned'.op = op /\ Loaded.ok

\* The file holds the text of the suite the method left.
SavedAfter == suite_file' = TextFile(to_string_pretty(suite', suite_path.extension).val)

\* C15: append on a Batch suite makes the case count one more, puts the given
\* (input, output) case last, keeps the cases before it as they were and in
\* their order, and keeps the time limit and the match policy, whether or not
\* the suite already holds an equal case; on an Interactive or Unsubmittable
\* suite it fails with SuiteIsNotSimple and the suite is what was loaded.
C15_Append ==
    [][Modifies("modify_append") =>
        IF Loaded.val.type = "simple"
        THEN /\ Len(suite'.cases) = Len(Loaded.val.cases) + 1
             /\ suite'.cases[Len(suite'.cases)]
                    = [input |-> returned'.input, output |-> returned'.output]
             /\ \A k \in DOMAIN Loaded.val.cases : suite'.cases[k] = Loaded.val.cases[k]
             /\ suite'.type = "simple"
             /\ suite'.timelimit = Loaded.val.timelimit
             /\ suite'.output_match = Loaded.val.output_match
        ELSE /\ returned'.res = Err("SuiteIsNotSimple", <<>>)
             /\ suite' = Loaded.val
             /\ suite_file' = suite_file]_vars

\* A case equal to the only case of the suite has been appended.
C15_Witness ==
    /\ returned.op = "modify_append"
    /\ returned.res.ok
    /\ suite.type = "simple"
    /\ Len(suite.cases) = 2
    /\ suite.cases[1] = suite.cases[2]

\* C16: modify_timelimit on a Batch or Interactive suite sets the time limit
\* of the suite to the given value, None included, and changes no other
\* field, and the changed suite is what is saved; on an Unsubmittable suite it
\* fails with Unsubmittable and the file is not written.
C16_ModifyTimelimit ==
    [][Modifies("modify_timelimit") =>
        IF Loaded.val.type \in {"simple", "interactive"}
        THEN /\ DOMAIN suite' = DOMAIN Loaded.val
             /\ suite'.timelimit = returned'.timelimit
             /\ \A f \in DOMAIN suite' \ {"timelimit"} : suite'[f] = Loaded.val[f]
             /\ returned'.res.ok => SavedAfter
        ELSE /\ returned'.res = Err("Unsubmittable", suite_path.path)
             /\ suite' = Loaded.val
             /\ suite_file' = suite_file]_vars

\* The time limit of an Interactive suite has been cleared.
C16_Witness ==
    /\ returned.op = "modify_timelimit"
    /\ returned.res.ok
    /\ returned.timelimit = None
    /\ suite.type = "interactive"
    /\ suite.timelimit = None
    /\ suite.each_args # <<>>

\* C17: modify_match on a Batch suite replaces the match policy by the given
\* one and keeps the time limit and the input and output of every case; on an
\* Interactive or Unsubmittable suite it fails with SuiteIsNotSimple.
C17_ModifyMatch ==
    [][Modifies("modify_match") =>
        IF Loaded.val.type = "simple"
        THEN /\ suite'.type = "simple"
             /\ suite'.output_match = returned'.output_match
             /\ suite'.timelimit = Loaded.val.timelimit
             /\ Len(suite'.cases) = Len(Loaded.val.cases)
             /\ \A k \in DOMAIN suite'.cases :
                    /\ suite'.cases[k].input = Loaded.val.cases[k].input
                    /\ suite'.cases[k].output = Loaded.val.cases[k].output
             /\ returned'.res.ok => SavedAfter
        ELSE /\ returned'.res = Err("SuiteIsNotSimple", <<>>)
             /\ suite' = Loaded.val
             /\ suite_file' = suite_file]_vars

\* The policy of a suite with a time limit and two cases has been replaced.
C17_Witness ==
    /\ returned.op = "modify_match"
    /\ returned.res.ok
    /\ suite.type = "simple"
    /\ suite.output_match = [kind |-> "Any"]
    /\ suite.timelimit # None
    /\ Len(suite.cases) = 2

\* C19: a modify_timelimit, modify_append or modify_match call that returns
\* an error leaves the suite file as it was before the call.
C19_SideEffectFree ==
    [][(returned.op \notin Modifications /\ returned'.op \in Modifications
            /\ ~returned'.res.ok)
        => suite_file' = suite_file]_vars

\* C20: with each of the four encodings, loading the text to_string_pretty
\* produced for a suite yields the suite.
C20_RoundTrip ==
    (/\ returned.op = "save"
     /\ to_string_pretty(suite, suite_path.extension).ok
     /\ reloaded # NotCalled)
    => reloaded = Ok(suite)

\* Every string of every case of the suite passes is_valid.
AllValid ==
    \A k \in DOMAIN suite.cases :
        /\ is_valid(suite.cases[k].input)
        /\ suite.cases[k].output # None => is_valid(suite.cases[k].output[1])

\* The saved text holds a literal block, or nothing at all after "cases:".
WrittenLiteral ==
    \/ Get(suite_file.content, "cases").kind = "null"
    \/ /\ Get(suite_file.content, "cases").kind = "seq"
       /\ \E k \in DOMAIN Get(suite_file.content, "cases").v :
            Get(Get(suite_file.content, "cases").v[k].v, "in").kind = "literal"

\* C21: a Batch suite saved as yaml or yml is written with literal blocks
\* exactly when every input and every present output ends with a newline and
\* holds only spaces, newlines and characters that are neither whitespace nor
\* control characters; and every case of a suite written so reads from its
\* literal blocks as it reads from the default string style.
C21_LiteralStyle ==
    (/\ returned.op = "save"
     /\ suite.type = "simple"
     /\ suite_path.extension \in {"yaml", "yml"}
     /\ suite_file.kind = "text")
    => /\ WrittenLiteral <=> AllValid
       /\ AllValid =>
            \A k \in DOMAIN suite.cases :
                DeCase(CaseVal(suite.cases[k], "literal"), suite_path.path)
                    = DeCase(CaseVal(suite.cases[k], "str"), suite_path.path)

----------------------------------------------------------------------------
(* Claims about format_paths, under SpecPaths *)

Compressed == compressed # NotCalled

CommonPrefix(ps) ==
    LET fits == {n \in 0..Len(ps[1]) :
                    \A k \in DOMAIN ps :
                        Len(ps[k]) >= n /\ SubSeq(ps[k], 1, n) = SubSeq(ps[1], 1, n)}
    IN SubSeq(ps[1], 1, Last(fits))

CommonSuffix(ps) == Reverse(CommonPrefix([k \in DOMAIN ps |-> Reverse(ps[k])]))

\* The paths without their common prefix.
AfterPrefix(ps) ==
    [k \in DOMAIN ps |-> SubSeq(ps[k], Len(CommonPrefix(ps)) + 1, Len(ps[k]))]

\* What tells the paths apart: each path without the common prefix and
\* without the suffix common to what the prefix leaves.
Middles(ps) ==
    LET rest == AfterPrefix(ps)
    IN [k \in DOMAIN ps |-> SubSeq(rest[k], 1, Len(rest[k]) - Len(CommonSuffix(rest)))]

\* C22: format_paths returns the longest prefix common to all paths, one pair
\* of braces holding the distinguishing middles joined with ", ", and the
\* longest common suffix; when nothing distinguishes the paths the result is
\* the bare path with no braces.
C22_Compression ==
    (Compressed /\ given_paths # <<>>) =>
        compressed.val =
            IF \A k \in DOMAIN given_paths : Middles(given_paths)[k] = <<>>
            THEN given_paths[1]
            ELSE CommonPrefix(given_paths)
                 \o <<"{">> \o Join(Middles(given_paths), <<",", " ">>) \o <<"}">>
                 \o CommonSuffix(AfterPrefix(given_paths))

\* C23 as stated: the alternatives are separated by a comma with no space.
C23_Original ==
    Compressed =>
        /\ given_paths = <<<<"a", "/", "1", ".", "y", "a", "m", "l">>,
                           <<"a", "/", "2", ".", "y", "a", "m", "l">>>>
            => compressed.val = <<"a", "/", "{", "1", ",", "2", "}", ".", "y", "a", "m", "l">>
        /\ given_paths = <<<<"x", ".", "y", "a", "m", "l">>, <<"y", ".", "y", "a", "m", "l">>>>
            => compressed.val = <<"{", "x", ",", "y", "}", ".", "y", "a", "m", "l">>

\* C23: two paths that differ only in one middle segment are written with
\* the alternatives separated by a comma and a space: "a/{1, 2}.yaml" and
\* "{x, y}.yaml"; every comma format_paths writes is followed by a space.
C23_CommaSpace ==
    Compressed =>
        /\ given_paths = <<<<"a", "/", "1", ".", "y", "a", "m", "l">>,
                           <<"a", "/", "2", ".", "y", "a", "m", "l">>>>
            => compressed.val
                 = <<"a", "/", "{", "1", ",", " ", "2", "}", ".", "y", "a", "m", "l">>
        /\ given_paths = <<<<"x", ".", "y", "a", "m", "l">>, <<"y", ".", "y", "a", "m", "l">>>>
            => compressed.val = <<"{", "x", ",", " ", "y", "}", ".", "y", "a", "m", "l">>
        /\ \A j \in DOMAIN compressed.val :
            compressed.val[j] = ","
                => j < Len(compressed.val) /\ compressed.val[j + 1] = " "

C23_Witness ==
    /\ Compressed
    /\ given_paths = <<<<"a", "/", "1", ".", "y", "a", "m", "l">>,
                       <<"a", "/", "2", ".", "y", "a", "m", "l">>>>
    /\ compressed.val = <<"a", "/", "{", "1", ",", " ", "2", "}", ".", "y", "a", "m", "l">>

\* C29: for a list of distinct paths the compressed text is a prefix, one
\* brace alternative per path, and a suffix, and putting each alternative
\* between the prefix and the suffix gives the paths in order (a single path
\* is written bare).
C29_Lossless ==
    (/\ Compressed
     /\ given_paths # <<>>
     /\ \A j, k \in DOMAIN given_paths : j # k => given_paths[j] # given_paths[k])
    => \/ Len(given_paths) = 1 /\ compressed.val = given_paths[1]
       \/ \E i \in 0..Len(compressed.val), j \in 0..Len(compressed.val) :
            LET pre == SubSeq(compressed.val, 1, i)
                suf == SubSeq(compressed.val, Len(compressed.val) - j + 1,
                              Len(compressed.val))
            IN /\ \A k \in DOMAIN given_paths :
                    /\ Len(given_paths[k]) >= i + j
                    /\ SubSeq(given_paths[k], 1, i) = pre
                    /\ EndsWith(given_paths[k], suf)
               /\ compressed.val =
                    pre \o <<"{">>
                    \o Join([k \in DOMAIN given_paths |->
                               SubSeq(given_paths[k], i + 1, Len(given_paths[k]) - j)],
                            <<",", " ">>)
                    \o <<"}">> \o suf


----------------------------------------------------------------------------
(* Claims about TemplateString::format, under SpecTemplate *)

Formatted == formatted # NotCalled

\* The i-th position of t lies inside a brace group: the nearest brace before
\* it is an opening one.
InGroup(t, i) ==
    \E j \in 1..(i - 1) : t[j] = "{" /\ \A k \in (j + 1)..(i - 1) : t[k] # "}"

\* The brace groups of t, as the positions of their braces.
Groups(t) ==
    {<<j, i>> \in (DOMAIN t) \X (DOMAIN t) :
        j < i /\ t[j] = "{" /\ t[i] = "}" /\ \A k \in (j + 1)..(i - 1) : t[k] \notin {"{", "}"}}

\* s is the specifier w with whitespace around it.
Specifies(s, w) ==
    \E a, b \in 0..Len(s) :
        /\ a + b <= Len(s)
        /\ \A k \in 1..a : s[k] = " "
        /\ \A k \in (Len(s) - b + 1)..Len(s) : s[k] = " "
        /\ SubSeq(s, a + 1, Len(s) - b) = w

\* Where the name of the "$" at position i ends: the next space, '/', '\\',
\* '$' or '{', or the end of the text.
NameEnd(t, i) ==
    CHOOSE e \in (i + 1)..(Len(t) + 1) :
        /\ e = Len(t) + 1 \/ t[e] \in {" ", "/", "\\", "$", "{"}
        /\ \A k \in (i + 1)..(e - 1) : t[k] \notin {" ", "/", "\\", "$", "{"}

NameAt(t, i) == SubSeq(t, i + 1, NameEnd(t, i) - 1)

Malformed(t, variables) ==
    \/ \E i \in DOMAIN t : t[i] = "}" /\ ~InGroup(t, i)
    \/ \E i \in DOMAIN t : t[i] = "{" /\ InGroup(t, i)
    \/ InGroup(t, Len(t) + 1)
    \/ \E g \in Groups(t) :
          \A w \in {<<>>, <<"c">>, <<"C">>} : ~Specifies(SubSeq(t, g[1] + 1, g[2] - 1), w)
    \/ \E i \in DOMAIN t : t[i] = "$" /\ NameAt(t, i) \notin DOMAIN variables
    \/ \E k \in DOMAIN variables :
          \E j \in DOMAIN k : k[j] \in {"$", "/", "\\", "{", "}", " "}

\* What a well-formed template stands for, read from its i-th character on.
RECURSIVE Expansion(_, _)
Expansion(t, i) ==
    IF i > Len(t) THEN <<>>
    ELSE IF t[i] = "{"
         THEN LET close == CHOOSE j \in (i + 1)..Len(t) :
                               t[j] = "}" /\ \A k \in (i + 1)..(j - 1) : t[k] # "}"
              IN (IF Specifies(SubSeq(t, i + 1, close - 1), <<>>)
                  THEN tmpl_target
                  ELSE camelize(tmpl_target)) \o Expansion(t, close + 1)
         ELSE IF t[i] = "$"
              THEN tmpl_vars[NameAt(t, i)] \o Expansion(t, NameEnd(t, i))
              ELSE <<t[i]>> \o Expansion(t, i + 1)

\* C24: format replaces each "{}" by the target, each "{c}" or "{C}"
\* (whitespace around the specifier ignored) by the camelized target and each
\* "$name" (the name ending at the next space, '/', '\', '$', '{' or the end
\* of the text) by the value of the variable name, the empty name included,
\* and copies all other text unchanged.
C24_Format ==
    (Formatted /\ ~Malformed(tmpl_string, tmpl_vars))
        => formatted = Ok(Expansion(tmpl_string, 1))

\* "$$$" with the empty-named variable bound to "AAA" gives "AAAAAAAAA".
C24_Witness ==
    /\ tmpl_string = <<"$", "$", "$">>
    /\ tmpl_vars = (<<>> :> <<"A", "A", "A">>)
    /\ formatted = Ok(<<"A", "A", "A", "A", "A", "A", "A", "A", "A">>)

\* C25: format returns an error and no string for every malformed template:
\* a '}' outside a brace group, a '{' inside one, a brace group still open at
\* the end, a specifier other than empty, "c" or "C", a "$name" whose name is
\* not a supplied variable, and a supplied key holding '$', '/', '\', '{',
\* '}' or a space.
C25_Malformed ==
    (Formatted /\ Malformed(tmpl_string, tmpl_vars)) => ~formatted.ok

\* "{}/{{}}", a '{' inside a brace group, is refused as a syntax error.
C25_Witness ==
    /\ tmpl_string = <<"{", "}", "/", "{", "{", "}", "}">>
    /\ formatted = Err("Syntax", tmpl_string)

----------------------------------------------------------------------------
(* Claims about the download runs, under SpecDownload *)

\* The pages that are scraped when every fetch succeeds, in order.
ScrapedPages == SelectSeq([k \in DOMAIN pages |-> k], LAMBDA k : pages[k] = "ok")

\* C28: every targeted page is scraped before any suite file is saved: when
\* scraping a problem fails the run returns the error having written no file,
\* and files are written only after all scrapes succeeded, in scraping order.
C28_ScrapeBeforeSave ==
    /\ (\E k \in DOMAIN pages : pages[k] = "fail")
          => /\ written = <<>>
             /\ pc.at = "done" => ~finished.ok
    /\ written # <<>>
          => /\ outputs = ScrapedPages
             /\ \A k \in DOMAIN pages : pages[k] # "fail"
    /\ Len(written) <= Len(outputs)
    /\ written = SubSeq(outputs, 1, Len(written))

\* The second page fails after the first was scraped: the run ends with the
\* error and the suite of the first page was not written.
C28_Witness ==
    /\ pages = <<"ok", "fail">>
    /\ outputs = <<1>>
    /\ written = <<>>
    /\ finished = Err("Scrape", 2)

========================================================================
